---- MODULE Spec2Model ----
(***************************************************************************)
(* Verification model of the better-debate core (packages/core/src).       *)
(*                                                                         *)
(* The crate is a set of loosely coupled subsystems, so the model has one  *)
(* group of variables and one specification per subsystem:                 *)
(*   SpecNorm     search.rs        normalize_for_search                    *)
(*   SpecPath     util.rs          normalize_capture_target_path           *)
(* Every specification leaves the other groups at their idle values.       *)
(***************************************************************************)
EXTENDS Integers, Sequences, FiniteSets, TLC

VARIABLES
    nsText,     \* search.rs: the argument `text` of normalize_for_search
    nsOut,      \* search.rs: its result
    nsOut2,     \* search.rs: the result of normalizing nsOut again
    nsCalls,    \* how many of the two calls have returned
    ctInput,    \* util.rs: the argument `target_path` of normalize_capture_target_path
    ctResult,   \* util.rs: its CommandResult
    ctDone,     \* whether the call has returned
    hrXml,      \* docx_parse.rs: the <w:p> nodes of a document.xml, as the parser reads them
    hrParas,    \* docx_parse.rs: Vec<ParsedParagraph> returned by parse_docx_paragraphs
    hrRanges,   \* docx_parse.rs: Vec<HeadingRange> returned by build_heading_ranges
    hrDone,     \* whether the ranges have been built
    rwCapture,  \* docx_capture.rs: the file at capture_path
    rwTemp,     \* docx_capture.rs: the file at temp_path (capture_path with extension docx.tmp)
    rwOriginal, \* the file at capture_path when rewrite_docx_with_parts was called
    rwReplacements, \* docx_capture.rs: names of the parts in `replacements`
    rwCopied,   \* docx_capture.rs: copied_names
    rwIndex,    \* docx_capture.rs: index of the next archive entry to copy
    rwPc,       \* position of the call in rewrite_docx_with_parts
    rwResult,   \* "running", "ok" or "err"
    fzLexical,  \* query_engine.rs: lexical_hits given to fuse_rrf
    fzSemantic, \* query_engine.rs: semantic_hits given to fuse_rrf
    fzLimit,    \* query_engine.rs: limit given to fuse_rrf
    fzFused,    \* query_engine.rs: the Vec<SearchHit> fuse_rrf returned
    fzDone,     \* whether fuse_rrf has returned
    shLexicalIndex,  \* lexical.rs: the hits the lexical index yields for the query
    shSemanticIndex, \* semantic.rs: the hits the semantic index yields for the query
    shCache,    \* query_engine.rs: QUERY_CACHE entries, by mode key
    shLast,     \* the last search_hybrid call: its branch, the failures it met, its result
    ixTree,     \* the files under the root folder, by relative path
    ixMarker,   \* util.rs: the root's .blockfile-index.json marker file
    ixDb,       \* db.rs: the tables roots, files, headings, authors, chunks, captures
    ixLexical,  \* lexical.rs: the ids of the file rows the lexical index was last rebuilt from
    ixRebuildTriggered, \* vector.rs: whether a forced semantic rebuild has been triggered
    ixClock,    \* util.rs: now_ms()
    ixUnchanged, \* whether index_root has succeeded and no .docx under the root changed since
    ixResponse, \* lib.rs: the response to the last command
    ixFault,    \* the step at which the last index_root ended with an error, or "none"
    mgSection,  \* docx_capture.rs: the StyledSection given to append_capture_to_docx
    mgSource,   \* the source document's word/styles.xml and word/_rels/document.xml.rels
    mgTarget,   \* the same two parts of the capture target
    mgInserted, \* the style and relationship references of the paragraph XML as inserted
    mgRemap,    \* docx_capture.rs: id_remap returned by merge_relationships
    mgResult,   \* "none", "ok" or "err"
    ckText,     \* chunking.rs: the section text given to split_text_into_chunks
    ckChunks,   \* the chunks it returned
    ckDone,     \* whether the split has run
    rbInFlight, \* semantic.rs: SEMANTIC_REBUILD_IN_FLIGHT
    rbTask,     \* the task each caller spawned for rebuild_semantic_index, and where it is
    rbCaller,   \* the thread of each command: its command and its position in it
    rbFingerprint, \* semantic.rs: semantic_root_fingerprint_ms, the newest roots.last_indexed_ms
    rbMeta,     \* semantic.rs: root_fingerprint_ms of the semantic metadata file
    rbTable,    \* the semantic table: "absent", "built" or "broken"
    rbLastRebuild, \* how the last finished rebuild ended: "none", "ok" or "err"
    rbLast,     \* the last finished command of a caller and its result
    qcOrder,    \* query_engine.rs: QueryCache.order, oldest key first
    qcEntries,  \* query_engine.rs: the keys of QueryCache.entries
    qcRecency,  \* the keys held, from the least to the most recently used (get hit or put)
    qcEviction, \* the last eviction: the key removed and the key that was least recently used
    qcOps,      \* how many get and put calls have been made
    lyDisk,     \* db.rs: the paths under the app data dir that ensure_index_layout reads or writes
    lyBefore,   \* the same paths when open_database was called
    lyResult,   \* "none", "ok" or "err": how open_database returned
    acParagraphs, \* util.rs: the paragraphs handed to extract_author_candidates
    acAuthors,  \* the (order, text) pairs it returned
    acDone,     \* whether extract_author_candidates has returned
    mvXml,      \* commands.rs: the body of word/document.xml of the capture file, as its tags in order
    mvBefore,   \* the same body when move_capture_heading was called
    mvCall,     \* the source and target heading order of the call
    mvResult,   \* "none", "ok" or "err": how move_capture_heading returned
    riParagraphs, \* docx_parse.rs: the paragraphs handed to resolve_insert_after_order
    riSelected, \* selected_target_heading_order
    riIncoming, \* incoming_heading_level
    riResult,   \* the Option<i64> it returned
    riDone,     \* whether resolve_insert_after_order has returned
    pgPc,       \* commands.rs: where an index_root run is, by the phase of its progress
    pgStartedAt, \* started_at of the run
    pgLastEmit, \* last_progress_emit_ms
    pgCalls,    \* the non-forced emit_index_progress calls made in the phase
    pgEvents,   \* the index-progress events emitted, in order
    scIndex,    \* lexical.rs: the files the lexical index holds
    scOrder,    \* query_engine.rs: QueryCache.order of the process
    scEntries,  \* QueryCache.entries, by key: the results cached
    scLastOp,   \* the last of index_root and remove_root that completed
    scLast,     \* the last search_lexical call and what it returned
    ovTree,     \* commands.rs: the documents under the root, by path: the hash of each
    ovFiles,    \* the rows of files of the root
    ovHeadings, \* the rows of headings of those files
    ovRun,      \* each index_root run: where it is and what it has read
    ovChanges,  \* the changes made to the documents so far
    ltQuery,    \* lexical.rs: the query given to search
    ltLimit,    \* the limit given to search
    ltFileNameOnly, \* the file_name_only flag given to search
    ltIndex,    \* the documents the index yields for the query of each tier
    ltOut,      \* what search returned, once called
    rtCell,     \* lexical.rs, semantic.rs: LEXICAL_RUNTIME and SEMANTIC_RUNTIME, the OnceLock cells
    rtBuilt,    \* for each runtime, how many instances its initializer has built
    rtObtained, \* for each runtime, the instances callers were given
    rtThread    \* each thread: where it is in lexical_runtime or load_semantic_runtime

normVars == <<nsText, nsOut, nsOut2, nsCalls>>
pathVars == <<ctInput, ctResult, ctDone>>
headVars == <<hrXml, hrParas, hrRanges, hrDone>>
rewriteVars == <<rwCapture, rwTemp, rwOriginal, rwReplacements, rwCopied, rwIndex, rwPc, rwResult>>
fuseVars == <<fzLexical, fzSemantic, fzLimit, fzFused, fzDone>>
searchVars == <<shLexicalIndex, shSemanticIndex, shCache, shLast>>
indexVars == <<ixTree, ixMarker, ixDb, ixLexical, ixRebuildTriggered, ixClock, ixUnchanged, ixResponse, ixFault>>
mergeVars == <<mgSection, mgSource, mgTarget, mgInserted, mgRemap, mgResult>>
chunkVars == <<ckText, ckChunks, ckDone>>
rebuildVars == <<rbInFlight, rbTask, rbCaller, rbFingerprint, rbMeta, rbTable, rbLastRebuild, rbLast>>
cacheVars == <<qcOrder, qcEntries, qcRecency, qcEviction, qcOps>>
layoutVars == <<lyDisk, lyBefore, lyResult>>
authorsVars == <<acParagraphs, acAuthors, acDone>>
moveVars == <<mvXml, mvBefore, mvCall, mvResult>>
insertVars == <<riParagraphs, riSelected, riIncoming, riResult, riDone>>
progressVars == <<pgPc, pgStartedAt, pgLastEmit, pgCalls, pgEvents>>
cachedVars == <<scIndex, scOrder, scEntries, scLastOp, scLast>>
overlapVars == <<ovTree, ovFiles, ovHeadings, ovRun, ovChanges>>
tiersVars == <<ltQuery, ltLimit, ltFileNameOnly, ltIndex, ltOut>>
runtimeVars == <<rtCell, rtBuilt, rtObtained, rtThread>>
vars ==
    <<normVars, pathVars, headVars, rewriteVars, fuseVars, searchVars, indexVars,
      mergeVars, chunkVars, rebuildVars, cacheVars, layoutVars, authorsVars, moveVars,
      insertVars, progressVars, cachedVars, overlapVars, tiersVars, runtimeVars>>

\* What an action of one subsystem leaves unchanged: the other subsystems.
notNorm ==
    <<pathVars, headVars, rewriteVars, fuseVars, searchVars, indexVars, mergeVars,
      chunkVars, rebuildVars, cacheVars, layoutVars, authorsVars, moveVars, insertVars,
      progressVars, cachedVars, overlapVars, tiersVars, runtimeVars>>
notPath ==
    <<normVars, headVars, rewriteVars, fuseVars, searchVars, indexVars, mergeVars,
      chunkVars, rebuildVars, cacheVars, layoutVars, authorsVars, moveVars, insertVars,
      progressVars, cachedVars, overlapVars, tiersVars, runtimeVars>>
notHead ==
    <<normVars, pathVars, rewriteVars, fuseVars, searchVars, indexVars, mergeVars,
      chunkVars, rebuildVars, cacheVars, layoutVars, authorsVars, moveVars, insertVars,
      progressVars, cachedVars, overlapVars, tiersVars, runtimeVars>>
notRewrite ==
    <<normVars, pathVars, headVars, fuseVars, searchVars, indexVars, mergeVars, chunkVars,
      rebuildVars, cacheVars, layoutVars, authorsVars, moveVars, insertVars, progressVars,
      cachedVars, overlapVars, tiersVars, runtimeVars>>
notFuse ==
    <<normVars, pathVars, headVars, rewriteVars, searchVars, indexVars, mergeVars,
      chunkVars, rebuildVars, cacheVars, layoutVars, authorsVars, moveVars, insertVars,
      progressVars, cachedVars, overlapVars, tiersVars, runtimeVars>>
notSearch ==
    <<normVars, pathVars, headVars, rewriteVars, fuseVars, indexVars, mergeVars, chunkVars,
      rebuildVars, cacheVars, layoutVars, authorsVars, moveVars, insertVars, progressVars,
      cachedVars, overlapVars, tiersVars, runtimeVars>>
notIndex ==
    <<normVars, pathVars, headVars, rewriteVars, fuseVars, searchVars, mergeVars,
      chunkVars, rebuildVars, cacheVars, layoutVars, authorsVars, moveVars, insertVars,
      progressVars, cachedVars, overlapVars, tiersVars, runtimeVars>>
notMerge ==
    <<normVars, pathVars, headVars, rewriteVars, fuseVars, searchVars, indexVars,
      chunkVars, rebuildVars, cacheVars, layoutVars, authorsVars, moveVars, insertVars,
      progressVars, cachedVars, overlapVars, tiersVars, runtimeVars>>
notChunk ==
    <<normVars, pathVars, headVars, rewriteVars, fuseVars, searchVars, indexVars,
      mergeVars, rebuildVars, cacheVars, layoutVars, authorsVars, moveVars, insertVars,
      progressVars, cachedVars, overlapVars, tiersVars, runtimeVars>>
notRebuild ==
    <<normVars, pathVars, headVars, rewriteVars, fuseVars, searchVars, indexVars,
      mergeVars, chunkVars, cacheVars, layoutVars, authorsVars, moveVars, insertVars,
      progressVars, cachedVars, overlapVars, tiersVars, runtimeVars>>
notCache ==
    <<normVars, pathVars, headVars, rewriteVars, fuseVars, searchVars, indexVars,
      mergeVars, chunkVars, rebuildVars, layoutVars, authorsVars, moveVars, insertVars,
      progressVars, cachedVars, overlapVars, tiersVars, runtimeVars>>
notLayout ==
    <<normVars, pathVars, headVars, rewriteVars, fuseVars, searchVars, indexVars,
      mergeVars, chunkVars, rebuildVars, cacheVars, authorsVars, moveVars, insertVars,
      progressVars, cachedVars, overlapVars, tiersVars, runtimeVars>>
notAuthors ==
    <<normVars, pathVars, headVars, rewriteVars, fuseVars, searchVars, indexVars,
      mergeVars, chunkVars, rebuildVars, cacheVars, layoutVars, moveVars, insertVars,
      progressVars, cachedVars, overlapVars, tiersVars, runtimeVars>>
notMove ==
    <<normVars, pathVars, headVars, rewriteVars, fuseVars, searchVars, indexVars,
      mergeVars, chunkVars, rebuildVars, cacheVars, layoutVars, authorsVars, insertVars,
      progressVars, cachedVars, overlapVars, tiersVars, runtimeVars>>
notInsert ==
    <<normVars, pathVars, headVars, rewriteVars, fuseVars, searchVars, indexVars,
      mergeVars, chunkVars, rebuildVars, cacheVars, layoutVars, authorsVars, moveVars,
      progressVars, cachedVars, overlapVars, tiersVars, runtimeVars>>
notProgress ==
    <<normVars, pathVars, headVars, rewriteVars, fuseVars, searchVars, indexVars,
      mergeVars, chunkVars, rebuildVars, cacheVars, layoutVars, authorsVars, moveVars,
      insertVars, cachedVars, overlapVars, tiersVars, runtimeVars>>
notCached ==
    <<normVars, pathVars, headVars, rewriteVars, fuseVars, searchVars, indexVars,
      mergeVars, chunkVars, rebuildVars, cacheVars, layoutVars, authorsVars, moveVars,
      insertVars, progressVars, overlapVars, tiersVars, runtimeVars>>
notOverlap ==
    <<normVars, pathVars, headVars, rewriteVars, fuseVars, searchVars, indexVars,
      mergeVars, chunkVars, rebuildVars, cacheVars, layoutVars, authorsVars, moveVars,
      insertVars, progressVars, cachedVars, tiersVars, runtimeVars>>
notTiers ==
    <<normVars, pathVars, headVars, rewriteVars, fuseVars, searchVars, indexVars,
      mergeVars, chunkVars, rebuildVars, cacheVars, layoutVars, authorsVars, moveVars,
      insertVars, progressVars, cachedVars, overlapVars, runtimeVars>>
notRuntime ==
    <<normVars, pathVars, headVars, rewriteVars, fuseVars, searchVars, indexVars,
      mergeVars, chunkVars, rebuildVars, cacheVars, layoutVars, authorsVars, moveVars,
      insertVars, progressVars, cachedVars, overlapVars, tiersVars>>

\* ---------------------------------------------------------------- helpers

RECURSIVE SeqsUpTo(_, _)
\* All sequences over S of length at most n.
SeqsUpTo(S, n) ==
    IF n = 0 THEN {<<>>}
    ELSE LET shorter == SeqsUpTo(S, n - 1)
         IN  shorter \cup {Append(s, x) : s \in {t \in shorter : Len(t) = n - 1}, x \in S}

\* ------------------------------------------------- search.rs: the normalizer

MaxTextLen == 3

\* The characters the model draws texts from.  "a" and "i" are lowercase
\* letters, "A" an uppercase letter, "7" a digit, "I_dot" is U+0130 (LATIN
\* CAPITAL LETTER I WITH DOT ABOVE), "c_dot" is U+0307 (COMBINING DOT ABOVE),
\* "," is punctuation and " " the space.
TextChars == {"a", "A", "7", "I_dot", ",", " "}

\* char::is_alphanumeric: Alphabetic or Numeric.  U+0307 is a nonspacing mark
\* (Mn) outside Other_Alphabetic, so it is not alphanumeric.
is_alphanumeric(character) == character \in {"a", "i", "A", "7", "I_dot"}

\* char::to_lowercase: an iterator of one or more chars.  U+0130 is the one
\* code point whose lowercase mapping has two chars: U+0069 U+0307.
to_lowercase(character) ==
    CASE character = "A" -> <<"a">>
      [] character = "I_dot" -> <<"i", "c_dot">>
      [] OTHER -> <<character>>

\* char::is_whitespace, as str::trim uses it.
is_whitespace(character) == character = " "

RECURSIVE trim_start(_)
trim_start(s) ==
    IF s # <<>> /\ is_whitespace(Head(s)) THEN trim_start(Tail(s)) ELSE s

RECURSIVE trim_end(_)
trim_end(s) ==
    IF s # <<>> /\ is_whitespace(s[Len(s)])
    THEN trim_end(SubSeq(s, 1, Len(s) - 1)) ELSE s

\* str::trim
trim(s) == trim_end(trim_start(s))

RECURSIVE normalize_loop(_, _, _)
\* The for loop of normalize_for_search over text.chars(): `normalized` and
\* `previous_space` are the loop's two locals.
normalize_loop(text, normalized, previous_space) ==
    IF text = <<>> THEN normalized
    ELSE LET character == Head(text) IN
         IF is_alphanumeric(character)
         THEN normalize_loop(Tail(text), normalized \o to_lowercase(character), FALSE)
         ELSE IF ~previous_space
         THEN normalize_loop(Tail(text), Append(normalized, " "), TRUE)
         ELSE normalize_loop(Tail(text), normalized, previous_space)

normalize_for_search(text) == trim(normalize_loop(text, <<>>, FALSE))

NormIdle == nsText = <<>> /\ nsOut = <<>> /\ nsOut2 = <<>> /\ nsCalls = 0

NormInit ==
    /\ nsText \in SeqsUpTo(TextChars, MaxTextLen)
    /\ nsOut = <<>> /\ nsOut2 = <<>> /\ nsCalls = 0

\* One call normalize_for_search(text).
Normalize ==
    /\ nsCalls = 0
    /\ nsOut' = normalize_for_search(nsText)
    /\ nsCalls' = 1
    /\ UNCHANGED <<nsText, nsOut2, notNorm>>

\* A second call, on the first call's result.
NormalizeAgain ==
    /\ nsCalls = 1
    /\ nsOut2' = normalize_for_search(nsOut)
    /\ nsCalls' = 2
    /\ UNCHANGED <<nsText, nsOut, notNorm>>

\* ------------------------------- util.rs: normalize_capture_target_path

MaxPathComps == 2

\* lib.rs: DEFAULT_CAPTURE_TARGET
DEFAULT_CAPTURE_TARGET == <<"BlockFile-Captures.docx">>

\* A path string is modelled by what Path::is_absolute and Path::components
\* read from it: whether it starts with the root "/", and its components,
\* "." (CurDir), ".." (ParentDir) or a normal part.  The blank string is the
\* relative path without components.
NormalParts == {"notes", "notes.docx", "notes.DOCX", "notes.txt"}
PathComps == NormalParts \cup {".", ".."}

NoneInput == [some |-> FALSE]
SomeInput(absolute, comps) == [some |-> TRUE, absolute |-> absolute, comps |-> comps]

PathInputs ==
    {NoneInput} \cup
    {SomeInput(a, c) : a \in BOOLEAN, c \in SeqsUpTo(PathComps, MaxPathComps)}

\* Path::extension of a file name.
extension(part) ==
    CASE part \in {"notes.docx", "BlockFile-Captures.docx"} -> "docx"
      [] part = "notes.DOCX" -> "DOCX"
      [] part = "notes.txt" -> "txt"
      [] OTHER -> "none"

\* str::eq_ignore_ascii_case("docx")
is_docx_extension(ext) == ext \in {"docx", "DOCX"}

\* PathBuf::set_extension("docx") on a file name: the extension is replaced,
\* or added when there is none.
with_docx_extension(part) ==
    IF part \in {"notes", "notes.txt"} THEN "notes.docx" ELSE part

Ok(value) == [ok |-> TRUE, value |-> value]
Err(message) == [ok |-> FALSE, error |-> message]

RECURSIVE relative_components(_, _)
\* The loop over candidate.components() of a relative path: Normal parts are
\* pushed, CurDir is skipped, ParentDir returns the error.
relative_components(comps, value) ==
    IF comps = <<>> THEN Ok(value)
    ELSE CASE Head(comps) = "." -> relative_components(Tail(comps), value)
           [] Head(comps) = ".." -> Err("cannot use '..' or root-prefix components")
           [] OTHER -> relative_components(Tail(comps), Append(value, Head(comps)))

RECURSIVE strip_trailing_cur_dir(_)
\* Path::components drops a trailing "." of a path, so file_name and
\* set_extension see the component before it.
strip_trailing_cur_dir(comps) ==
    IF comps # <<>> /\ comps[Len(comps)] = "."
    THEN strip_trailing_cur_dir(SubSeq(comps, 1, Len(comps) - 1)) ELSE comps

\* The extension check and PathBuf::set_extension("docx"): a path without a
\* file name (no component, or a last component "..") has no extension, and
\* set_extension leaves it as it is.
ensure_docx_extension(comps) ==
    LET named == strip_trailing_cur_dir(comps) IN
    IF named = <<>> \/ named[Len(named)] = ".." THEN comps
    ELSE IF is_docx_extension(extension(named[Len(named)])) THEN comps
    ELSE SubSeq(named, 1, Len(named) - 1) \o <<with_docx_extension(named[Len(named)])>>

normalize_capture_target_path(target_path) ==
    LET blank == target_path.some /\ ~target_path.absolute /\ target_path.comps = <<>>
        raw == IF ~target_path.some \/ blank
               THEN [absolute |-> FALSE, comps |-> DEFAULT_CAPTURE_TARGET]
               ELSE [absolute |-> target_path.absolute, comps |-> target_path.comps]
        normalized == IF raw.absolute THEN Ok(raw.comps)
                      ELSE relative_components(raw.comps, <<>>)
    IN  IF ~normalized.ok THEN normalized
        ELSE IF ~raw.absolute /\ normalized.value = <<>>
        THEN Err("Capture target path cannot be empty.")
        ELSE Ok([absolute |-> raw.absolute,
                 comps |-> ensure_docx_extension(normalized.value)])

PathIdle == ctInput = NoneInput /\ ctResult = Err("") /\ ctDone = FALSE

PathInit == ctInput \in PathInputs /\ ctResult = Err("") /\ ctDone = FALSE

\* One call normalize_capture_target_path(target_path).
NormalizeTarget ==
    /\ ~ctDone
    /\ ctResult' = normalize_capture_target_path(ctInput)
    /\ ctDone' = TRUE
    /\ UNCHANGED <<ctInput, notPath>>

\* ------------------------------ docx_parse.rs: paragraphs and heading ranges

MaxParas == 3
MaxLevel == 2

\* A <w:p> node, by what parse_docx_paragraphs reads from it: the level
\* detect_heading_level finds (0 for None), whether its text is a probable
\* author line (util.rs, is_probable_author_line), and whether its style is
\* an F8 cite style.
XmlParagraphs == [detected_level : 0..MaxLevel, author_line : BOOLEAN, is_f8_cite : BOOLEAN]

\* The loop of parse_docx_paragraphs: `order` counts from 1, and a heading
\* whose text is a probable author line, or whose style is an F8 cite, is
\* no heading (heading_level 0 models None).
parse_docx_paragraphs(xml) ==
    [i \in 1..Len(xml) |->
        [order |-> i,
         heading_level |->
            IF xml[i].detected_level # 0 /\ (xml[i].author_line \/ xml[i].is_f8_cite)
            THEN 0 ELSE xml[i].detected_level,
         author_line |-> xml[i].author_line,
         is_f8_cite |-> xml[i].is_f8_cite]]

Min(S) == CHOOSE x \in S : \A y \in S : x <= y
Max(S) == CHOOSE x \in S : \A y \in S : x >= y

\* build_heading_ranges, first loop: the 0-based indices of the paragraphs
\* with a heading level.
heading_indices(paragraphs) ==
    {index \in 0..(Len(paragraphs) - 1) : paragraphs[index + 1].heading_level # 0}

\* The first `candidate_level <= level` test of the mutant below reads `<`.
heading_end_index_strict(paragraphs, start_index) ==
    LET level == paragraphs[start_index + 1].heading_level
        stops == {candidate_index \in heading_indices(paragraphs) :
                    /\ candidate_index > start_index
                    /\ ~paragraphs[candidate_index + 1].author_line
                    /\ paragraphs[candidate_index + 1].heading_level < level}
    IN  IF stops = {} THEN Len(paragraphs) ELSE Min(stops)

\* build_heading_ranges, inner loop: end_index is the first later heading
\* that is no probable author line and whose level is <= level, or
\* paragraphs.len() when there is none.
heading_end_index(paragraphs, start_index) ==
    LET level == paragraphs[start_index + 1].heading_level
        stops == {candidate_index \in heading_indices(paragraphs) :
                    /\ candidate_index > start_index
                    /\ ~paragraphs[candidate_index + 1].author_line
                    /\ paragraphs[candidate_index + 1].heading_level <= level}
    IN  IF stops = {} THEN Len(paragraphs) ELSE Min(stops)

RECURSIVE SortedSeq(_)
\* The elements of a finite set of integers in increasing order.
SortedSeq(S) == IF S = {} THEN <<>> ELSE <<Min(S)>> \o SortedSeq(S \ {Min(S)})

\* build_heading_ranges: one HeadingRange per heading, in document order.
build_heading_ranges(paragraphs) ==
    LET starts == SortedSeq(heading_indices(paragraphs)) IN
    [position \in 1..Len(starts) |->
        [order |-> paragraphs[starts[position] + 1].order,
         level |-> paragraphs[starts[position] + 1].heading_level,
         start_index |-> starts[position],
         end_index |-> heading_end_index(paragraphs, starts[position])]]

HeadIdle == hrXml = <<>> /\ hrParas = <<>> /\ hrRanges = <<>> /\ hrDone = FALSE

HeadInit ==
    /\ hrXml \in SeqsUpTo(XmlParagraphs, MaxParas)
    /\ hrParas = <<>> /\ hrRanges = <<>> /\ hrDone = FALSE

\* commands.rs, get_capture_target_preview and move_capture_heading:
\* parse_docx_paragraphs, then build_heading_ranges on its result.
BuildHeadingRanges ==
    /\ ~hrDone
    /\ hrParas' = parse_docx_paragraphs(hrXml)
    /\ hrRanges' = build_heading_ranges(hrParas')
    /\ hrDone' = TRUE
    /\ UNCHANGED <<hrXml, notHead>>

\* --------------------------------- docx_capture.rs: rewrite_docx_with_parts

MaxEntries == 2

PartNames == {"word/document.xml", "word/styles.xml", "word/_rels/document.xml.rels"}

\* A zip entry: a directory entry, or a file entry with its bytes ("old" for
\* what the archive held, "new" for the bytes of a replacement).
OldEntries == [name : PartNames, is_dir : BOOLEAN, bytes : {"old"}]

\* A file on disk: absent, or present with the zip entries it holds.
AbsentFile == [exists |-> FALSE, entries |-> <<>>]
ZipFile(entries) == [exists |-> TRUE, entries |-> entries]

DistinctNames(entries) ==
    \A j, k \in 1..Len(entries) : j # k => entries[j].name # entries[k].name

\* The archives the capture file can hold when the rewrite starts.
CaptureArchives ==
    {ZipFile(entries) : entries \in {e \in SeqsUpTo(OldEntries, MaxEntries) : DistinctNames(e)}}

RewriteIdle ==
    /\ rwCapture = AbsentFile /\ rwTemp = AbsentFile /\ rwOriginal = AbsentFile
    /\ rwReplacements = {} /\ rwCopied = {} /\ rwIndex = 0
    /\ rwPc = "idle" /\ rwResult = "running"

\* A call rewrite_docx_with_parts(capture_path, replacements): append_capture_to_docx
\* always replaces word/document.xml and may replace the other two parts.
RewriteInit ==
    /\ rwCapture \in CaptureArchives
    /\ rwOriginal = rwCapture
    /\ rwTemp = AbsentFile
    /\ rwReplacements \in {r \in SUBSET PartNames : "word/document.xml" \in r}
    /\ rwCopied = {} /\ rwIndex = 0
    /\ rwPc = "open" /\ rwResult = "running"

\* `?` on an Err: the function returns, whatever is on disk stays.
RewriteFail ==
    /\ rwPc' = "done"
    /\ rwResult' = "err"

\* File::open(capture_path) and ZipArchive::new.
OpenArchive ==
    /\ rwPc = "open"
    /\ \/ /\ rwPc' = "create"
          /\ UNCHANGED rwResult
       \/ RewriteFail
    /\ UNCHANGED <<rwCapture, rwTemp, rwOriginal, rwReplacements, rwCopied, rwIndex, notRewrite>>

\* File::create(&temp_path): creates or truncates the temp file.
CreateTemp ==
    /\ rwPc = "create"
    /\ \/ /\ rwTemp' = ZipFile(<<>>)
          /\ rwPc' = "copy"
          /\ UNCHANGED rwResult
       \/ /\ RewriteFail
          /\ UNCHANGED rwTemp
    /\ UNCHANGED <<rwCapture, rwOriginal, rwReplacements, rwCopied, rwIndex, notRewrite>>

\* One iteration of `for index in 0..archive.len()`: a directory entry is
\* skipped, a file entry is written to the temp file with the replacement's
\* bytes when `replacements` has its name; by_index, start_file,
\* read_to_end and write_all may each fail.
CopyEntry ==
    /\ rwPc = "copy"
    /\ rwIndex < Len(rwCapture.entries)
    /\ LET entry == rwCapture.entries[rwIndex + 1] IN
        \/ /\ entry.is_dir
           /\ rwIndex' = rwIndex + 1
           /\ UNCHANGED <<rwTemp, rwCopied, rwPc, rwResult>>
        \/ /\ ~entry.is_dir
           /\ rwTemp' = ZipFile(Append(rwTemp.entries,
                [name |-> entry.name, is_dir |-> FALSE,
                 bytes |-> IF entry.name \in rwReplacements THEN "new" ELSE entry.bytes]))
           /\ rwCopied' = rwCopied \cup {entry.name}
           /\ rwIndex' = rwIndex + 1
           /\ UNCHANGED <<rwPc, rwResult>>
        \/ /\ RewriteFail
           /\ UNCHANGED <<rwTemp, rwCopied, rwIndex>>
    /\ UNCHANGED <<rwCapture, rwOriginal, rwReplacements, notRewrite>>

\* The entry loop has run through the archive.
CopyDone ==
    /\ rwPc = "copy"
    /\ rwIndex = Len(rwCapture.entries)
    /\ rwPc' = "add"
    /\ UNCHANGED <<rwCapture, rwTemp, rwOriginal, rwReplacements, rwCopied, rwIndex, rwResult, notRewrite>>

\* One iteration of `for (name, updated_bytes) in replacements` that adds a
\* part: the HashMap yields the names in any order; the loop skips the
\* names in copied_names.
AddReplacement ==
    /\ rwPc = "add"
    /\ \E name \in rwReplacements \ rwCopied :
        \/ /\ rwTemp' = ZipFile(Append(rwTemp.entries,
                [name |-> name, is_dir |-> FALSE, bytes |-> "new"]))
           /\ rwCopied' = rwCopied \cup {name}
           /\ UNCHANGED <<rwPc, rwResult>>
        \/ /\ RewriteFail
           /\ UNCHANGED <<rwTemp, rwCopied>>
    /\ UNCHANGED <<rwCapture, rwOriginal, rwReplacements, rwIndex, notRewrite>>

\* writer.finish().
FinishArchive ==
    /\ rwPc = "add"
    /\ rwReplacements \subseteq rwCopied
    /\ \/ /\ rwPc' = "rename"
          /\ UNCHANGED rwResult
       \/ RewriteFail
    /\ UNCHANGED <<rwCapture, rwTemp, rwOriginal, rwReplacements, rwCopied, rwIndex, notRewrite>>

\* fs::rename(&temp_path, capture_path): Ok(()) => Ok(()), Err(_) => the fallback.
RenameTemp ==
    /\ rwPc = "rename"
    /\ \/ /\ rwCapture' = rwTemp
          /\ rwTemp' = AbsentFile
          /\ rwPc' = "done"
          /\ rwResult' = "ok"
       \/ /\ rwPc' = "remove"
          /\ UNCHANGED <<rwCapture, rwTemp, rwResult>>
    /\ UNCHANGED <<rwOriginal, rwReplacements, rwCopied, rwIndex, notRewrite>>

\* Fallback: fs::remove_file(capture_path)?.
RemoveOriginal ==
    /\ rwPc = "remove"
    /\ \/ /\ rwCapture' = AbsentFile
          /\ rwPc' = "rename2"
          /\ UNCHANGED rwResult
       \/ /\ RewriteFail
          /\ UNCHANGED rwCapture
    /\ UNCHANGED <<rwTemp, rwOriginal, rwReplacements, rwCopied, rwIndex, notRewrite>>

\* Fallback: the second fs::rename(&temp_path, capture_path), whose error is returned.
RenameAgain ==
    /\ rwPc = "rename2"
    /\ \/ /\ rwCapture' = rwTemp
          /\ rwTemp' = AbsentFile
          /\ rwPc' = "done"
          /\ rwResult' = "ok"
       \/ /\ RewriteFail
          /\ UNCHANGED <<rwCapture, rwTemp>>
    /\ UNCHANGED <<rwOriginal, rwReplacements, rwCopied, rwIndex, notRewrite>>

\* ------------------------------------- query_engine.rs: fuse_rrf, search_hybrid

MaxHits == 3
MaxIndexHits == 2
DEFAULT_RESULT_LIMIT == 120
MinResultLimit == 10
MaxResultLimit == 400

\* dedupe_key(hit): kind, file_id, heading_order, heading_text and
\* relative_path of a hit, named by one letter.
HitKeys == {"A", "B", "C", "D"}

\* The fields of a hit that the sort of fuse_rrf compares after the score;
\* relative_path and kind are given by their place in string order. C and D
\* are two hits of one heading of one file that differ in heading_text only
\* (a heading and a chunk under it), so the sort cannot tell them apart.
relative_path(key) == CASE key = "A" -> 1 [] key = "B" -> 2 [] OTHER -> 3
heading_order(key) == IF key \in {"C", "D"} THEN 1 ELSE 0
kind(key) == IF key \in {"C", "D"} THEN 2 ELSE 1

\* A score is a fraction num/den.
Score(num, den) == [num |-> num, den |-> den]

\* lexical.rs, search: the hits of a tier, source "lexical", score base + rank.
lexical_hit(key, rank) == [key |-> key, source |-> "lexical", score |-> Score(1000 + rank, 1)]

\* semantic.rs, semantic_hits_from_batches: source "semantic", score 7000 + distance * 1000
\* (the distance grows with the rank).
semantic_hit(key, rank) == [key |-> key, source |-> "semantic", score |-> Score(7000 + rank, 1)]

\* Both searches drop a hit whose dedupe key they have seen (lexical.rs
\* `seen.insert(key)`, semantic.rs `seen.insert(dedupe_key)`), so a result
\* list holds a key once.
KeyLists(length) ==
    {keys \in SeqsUpTo(HitKeys, length) :
        \A j, k \in 1..Len(keys) : j # k => keys[j] # keys[k]}

LexicalLists(length) ==
    {[rank \in 1..Len(keys) |-> lexical_hit(keys[rank], rank - 1)] : keys \in KeyLists(length)}
SemanticLists(length) ==
    {[rank \in 1..Len(keys) |-> semantic_hit(keys[rank], rank - 1)] : keys \in KeyLists(length)}

\* effective_limit: limit.unwrap_or(DEFAULT_RESULT_LIMIT).clamp(10, 400).
effective_limit(limit) ==
    LET value == IF limit.some THEN limit.value ELSE DEFAULT_RESULT_LIMIT IN
    IF value < MinResultLimit THEN MinResultLimit
    ELSE IF value > MaxResultLimit THEN MaxResultLimit ELSE value

RequestedLimits == {[some |-> FALSE, value |-> 0], [some |-> TRUE, value |-> 1]}

RECURSIVE RrfProduct(_)
RrfProduct(rank) == IF rank = 0 THEN 1 ELSE (60 + rank) * RrfProduct(rank - 1)

\* A common denominator of the terms 1/(60 + rank) of lists of MaxHits hits.
RrfDenominator == RrfProduct(MaxHits)

\* The term of the mutant below is the same at every rank.
rrf_term_flat(rank) == Score(RrfDenominator \div 61, RrfDenominator)

\* 1.0 / (60.0 + f64::from((rank + 1) as u32)), rank counted from 0.
rrf_term(rank) == Score(RrfDenominator \div (60 + (rank + 1)), RrfDenominator)

RECURSIVE rrf_scores(_, _, _)
\* The loops `for (rank, hit) in hits.iter().enumerate()`: add the term of
\* each hit to the score of its key.
rrf_scores(hits, rank, scores) ==
    IF rank >= Len(hits) THEN scores
    ELSE rrf_scores(hits, rank + 1,
            [scores EXCEPT ![hits[rank + 1].key] = @ + rrf_term(rank).num])

hit_keys(hits) == {hits[k].key : k \in 1..Len(hits)}

first_hit(hits, key) == hits[Min({k \in 1..Len(hits) : hits[k].key = key})]

\* The filter_map over `scores`: the hit stored in by_key (the lexical one
\* when there is one), tagged "hybrid" when the key was seen in both
\* lists, with score 1000 - score * 1000.
fused_hit(lexical_hits, semantic_hits, key) ==
    LET scores == rrf_scores(semantic_hits, 0,
                    rrf_scores(lexical_hits, 0, [k \in HitKeys |-> 0]))
        stored == IF key \in hit_keys(lexical_hits)
                  THEN first_hit(lexical_hits, key) ELSE first_hit(semantic_hits, key)
    IN  [key |-> key,
         source |-> IF key \in hit_keys(lexical_hits) /\ key \in hit_keys(semantic_hits)
                    THEN "hybrid" ELSE stored.source,
         score |-> Score(1000 * RrfDenominator - 1000 * scores[key], RrfDenominator)]

\* The comparator of ranked.sort_by: score, then relative_path, then
\* heading_order, then kind; TRUE when `left` may stand before `right`.
sort_before_or_equal(left, right) ==
    \/ left.score.num < right.score.num
    \/ /\ left.score.num = right.score.num
       /\ \/ relative_path(left.key) < relative_path(right.key)
          \/ /\ relative_path(left.key) = relative_path(right.key)
             /\ \/ heading_order(left.key) < heading_order(right.key)
                \/ /\ heading_order(left.key) = heading_order(right.key)
                   /\ kind(left.key) <= kind(right.key)

truncate(hits, limit) == IF Len(hits) <= limit THEN hits ELSE SubSeq(hits, 1, limit)

\* fuse_rrf: the lists it can return. `scores` is a HashMap, so hits the
\* comparator holds equal come out in either order.
fuse_rrf(lexical_hits, semantic_hits, limit) ==
    LET keys == hit_keys(lexical_hits) \cup hit_keys(semantic_hits)
        count == Cardinality(keys)
        ranked == {order \in [1..count -> keys] :
                    /\ \A j, k \in 1..count : j # k => order[j] # order[k]
                    /\ \A j, k \in 1..count : j < k =>
                        sort_before_or_equal(
                            fused_hit(lexical_hits, semantic_hits, order[j]),
                            fused_hit(lexical_hits, semantic_hits, order[k]))}
    IN  {truncate([k \in 1..count |-> fused_hit(lexical_hits, semantic_hits, order[k])], limit) :
            order \in ranked}

\* mode_key of search_hybrid; with one query text, one root and one limit
\* it is what tells the cache keys of cache_key apart.
ModeKeys == {"hybrid_file_name_only", "hybrid", "lexical_only"}

mode_key(file_name_only, semantic_enabled) ==
    IF file_name_only THEN "hybrid_file_name_only"
    ELSE IF semantic_enabled THEN "hybrid" ELSE "lexical_only"

\* QueryCache: no entry, or the results stored under a key. The cache holds
\* CACHE_CAPACITY (480) entries, more than there are keys here, so `put`
\* never evicts.
NoEntry == [present |-> FALSE, results |-> <<>>]
CacheEntry(results) == [present |-> TRUE, results |-> results]
EmptyCache == [key \in ModeKeys |-> NoEntry]

\* QueryCache::get: the entry's results unless it is older than CACHE_TTL_MS.
cache_get(cache, key, expired) == cache[key].present /\ ~expired

\* QueryCache::put.
cache_put(cache, key, results) == [cache EXCEPT ![key] = CacheEntry(results)]

\* What the caller of search_hybrid sees of a call.
Call(branch, lexical_failed, semantic_failed, result) ==
    [branch |-> branch, lexical_failed |-> lexical_failed,
     semantic_failed |-> semantic_failed, result |-> result]

NoCall == Call("none", FALSE, FALSE, Ok(<<>>))

\* lexical.rs, build_hit: with file_name_only only hits of kind "file" are built.
file_name_hits(hits) == SelectSeq(hits, LAMBDA hit : kind(hit.key) = 1)

\* The mutant below propagates the semantic error as it does the lexical one.
hybrid_outcome_strict(lexical_result, semantic_result, limit) ==
    IF ~lexical_result.ok THEN {lexical_result}
    ELSE IF ~semantic_result.ok THEN {semantic_result}
    ELSE {Ok(fused) : fused \in fuse_rrf(lexical_result.value, semantic_result.value, limit)}

\* search_hybrid after the join of the two tasks: `lexical_result?`,
\* `semantic_result.unwrap_or_default()`, then fuse_rrf.
hybrid_outcome(lexical_result, semantic_result, limit) ==
    IF ~lexical_result.ok THEN {lexical_result}
    ELSE LET semantic_hits == IF semantic_result.ok THEN semantic_result.value ELSE <<>> IN
         {Ok(fused) : fused \in fuse_rrf(lexical_result.value, semantic_hits, limit)}

SearchIdle ==
    /\ shLexicalIndex = <<>> /\ shSemanticIndex = <<>>
    /\ shCache = EmptyCache /\ shLast = NoCall

\* The indexes as built: what each search yields for the query while the
\* index stays as it is.
SearchInit ==
    /\ shLexicalIndex \in LexicalLists(MaxIndexHits)
    /\ shSemanticIndex \in SemanticLists(MaxIndexHits)
    /\ shCache = EmptyCache
    /\ shLast = NoCall

\* A call search_hybrid(app, query, root_path, limit, file_name_only,
\* semantic_enabled) from its first line to its return. Its inputs: whether
\* the query is long enough, the two flags, and what the environment does
\* to it: whether the root resolves (open_database), whether the cached
\* entry has expired, whether each search task fails.
SearchHybrid ==
    \E query_ok, file_name_only, semantic_enabled, root_ok, expired,
       lexical_fails, semantic_fails \in BOOLEAN :
        LET limit == effective_limit([some |-> FALSE, value |-> 0])
            key == mode_key(file_name_only, semantic_enabled)
            lexical_result ==
                IF lexical_fails THEN Err("Lexical search execution failed")
                ELSE Ok(IF file_name_only THEN file_name_hits(shLexicalIndex)
                        ELSE shLexicalIndex)
            semantic_result ==
                IF semantic_fails THEN Err("Semantic search failed")
                ELSE Ok(shSemanticIndex)
        IN
        /\ IF ~query_ok
           THEN /\ shLast' = Call("short_query", FALSE, FALSE, Ok(<<>>))
                /\ UNCHANGED shCache
           ELSE IF ~root_ok
           THEN /\ shLast' = Call("root_error", FALSE, FALSE, Err("Could not open database"))
                /\ UNCHANGED shCache
           ELSE IF cache_get(shCache, key, expired)
           THEN /\ shLast' = Call("cached", FALSE, FALSE, Ok(shCache[key].results))
                /\ UNCHANGED shCache
           ELSE IF file_name_only \/ ~semantic_enabled
           THEN /\ shLast' = Call(key, lexical_fails, FALSE, lexical_result)
                /\ shCache' = IF lexical_result.ok
                              THEN cache_put(shCache, key, lexical_result.value)
                              ELSE shCache
           ELSE \E outcome \in hybrid_outcome(lexical_result, semantic_result, limit) :
                /\ shLast' = Call(key, lexical_fails, semantic_fails, outcome)
                /\ shCache' = IF outcome.ok
                              THEN cache_put(shCache, key, outcome.value)
                              ELSE shCache
        /\ UNCHANGED <<shLexicalIndex, shSemanticIndex, notSearch>>

FuseIdle ==
    /\ fzLexical = <<>> /\ fzSemantic = <<>> /\ fzLimit = 0
    /\ fzFused = <<>> /\ fzDone = FALSE

FuseInit ==
    /\ fzLexical \in LexicalLists(MaxHits)
    /\ fzSemantic \in SemanticLists(MaxHits)
    /\ fzLimit \in {effective_limit(limit) : limit \in RequestedLimits}
    /\ fzFused = <<>> /\ fzDone = FALSE

\* A call fuse_rrf(&lexical_hits, &semantic_hits, limit).
FuseRrf ==
    /\ ~fzDone
    /\ fzFused' \in fuse_rrf(fzLexical, fzSemantic, fzLimit)
    /\ fzDone' = TRUE
    /\ UNCHANGED <<fzLexical, fzSemantic, fzLimit, notFuse>>

\* ----------------------- lib.rs, commands.rs, db.rs: the store and index_root

MaxMtime == 2
MaxClock == 3
MaxCaptures == 1

\* The one root folder of the model.
RootPath == "/r"

\* The files that can lie under the root: two documents, a document in a
\* hidden folder, and a file that is no document.
IndexPaths == {"a.docx", "sub/b.DOCX", ".drafts/c.docx", "notes.txt"}

\* filter_entry(is_visible_entry): no component of the path starts with '.'.
is_visible_entry(path) == path # ".drafts/c.docx"

\* The extension test of the walk: eq_ignore_ascii_case("docx").
is_docx(path) == path # "notes.txt"

\* The bytes of a file: its length, the bytes in its first and last 64 KiB
\* window, and the bytes between the two windows.
NoContent == [len |-> 0, edges |-> "", middle |-> ""]
FileContents ==
    {[len |-> 1, edges |-> "e", middle |-> ""],
     [len |-> 2, edges |-> "e", middle |-> "m1"],
     [len |-> 2, edges |-> "e", middle |-> "m2"]}

AbsentEntry == [exists |-> FALSE, content |-> NoContent, modified_ms |-> 0]
FileEntry(content, modified_ms) == [exists |-> TRUE, content |-> content, modified_ms |-> modified_ms]

\* fast_file_hash: BLAKE3 of the length, the first window and, for a file
\* longer than one window, the last window.
fast_file_hash(content) == [len |-> content.len, edges |-> content.edges]

\* metadata.len().
file_size(content) == content.len

\* parse_docx_paragraphs(..).unwrap_or_default(), then the headings, authors
\* and chunks read from the paragraphs: the orders of the rows each yields.
\* The first content is no readable docx and yields nothing.
\* A file that cannot be parsed is given one heading.
parsed_headings_of_unreadable(content) ==
    IF content.middle = "m2" THEN {1, 2} ELSE {1}

parsed_headings(content) ==
    IF content.middle = "m1" THEN {1} ELSE IF content.middle = "m2" THEN {1, 2} ELSE {}
parsed_authors(content) == IF content.middle = "m2" THEN {1} ELSE {}
parsed_chunks(content) == parsed_headings(content)

EmptyDb == [roots |-> {}, files |-> {}, headings |-> {}, authors |-> {}, chunks |-> {}, captures |-> {}]

\* SQLite INTEGER PRIMARY KEY: one more than the largest rowid of the table.
next_rowid(rows) == IF rows = {} THEN 1 ELSE Max({row.id : row \in rows}) + 1

\* db.rs, root_id: SELECT id FROM roots WHERE path = ?1.
root_rows(db, path) == {row \in db.roots : row.path = path}

\* db.rs, add_or_get_root_id: INSERT ... ON CONFLICT(path) DO NOTHING.
add_root_row(db, path) ==
    IF root_rows(db, path) # {} THEN db
    ELSE [db EXCEPT !.roots = @ \cup {[id |-> next_rowid(db.roots), path |-> path, last_indexed_ms |-> 0]}]

root_id_of(db, path) == (CHOOSE row \in root_rows(db, path) : TRUE).id

\* db.rs, load_existing_files: the file rows of a root.
load_existing_files(db, root_id) == {row \in db.files : row.root_id = root_id}

\* DELETE FROM files WHERE id = ?1 with the ON DELETE CASCADE of headings,
\* authors and chunks.
delete_file_rows(db, ids) ==
    [db EXCEPT !.files = {row \in @ : row.id \notin ids},
               !.headings = {row \in @ : row.file_id \notin ids},
               !.authors = {row \in @ : row.file_id \notin ids},
               !.chunks = {row \in @ : row.file_id \notin ids}]

\* DELETE FROM roots WHERE path = ?1 with the ON DELETE CASCADE of files,
\* chunks and captures, and through files of headings and authors.
delete_root_rows(db, path) ==
    LET roots == {row.id : row \in root_rows(db, path)}
        files == {row.id : row \in {r \in db.files : r.root_id \in roots}}
        cascaded == delete_file_rows(db, files)
    IN  [cascaded EXCEPT !.roots = {row \in @ : row.id \notin roots},
                         !.chunks = {row \in @ : row.root_id \notin roots},
                         !.captures = {row \in @ : row.root_id \notin roots}]

\* commands.rs, remove_root: what the function does to the store. No arm of
\* invoke_command calls it.
remove_root(db, path) == delete_root_rows(db, path)

\* The walk of index_root: the visible .docx files under the root.
walked_paths(tree) ==
    {path \in IndexPaths : tree[path].exists /\ is_visible_entry(path) /\ is_docx(path)}

\* The test of the mutant below wants an empty stored hash and has no
\* second test on the hash.
is_unchanged_without_hash(existing, entry) ==
    /\ existing.modified_ms = entry.modified_ms
    /\ existing.size = file_size(entry.content)
    /\ existing.file_hash = fast_file_hash(NoContent)

\* The skip test of the walk: same modified_ms and size and a stored hash,
\* or else the same hash.
is_unchanged(existing, entry) ==
    \/ /\ existing.modified_ms = entry.modified_ms
       /\ existing.size = file_size(entry.content)
       /\ existing.file_hash # fast_file_hash(NoContent)
    \/ existing.file_hash = fast_file_hash(entry.content)

existing_file(existing_files, path) == {row \in existing_files : row.relative_path = path}

\* The paths pushed to indexing_candidates.
indexing_candidates(existing_files, tree) ==
    {path \in walked_paths(tree) :
        \A existing \in existing_file(existing_files, path) : ~is_unchanged(existing, tree[path])}

\* The paths counted by `skipped += 1`.
skipped_paths(existing_files, tree) ==
    {path \in walked_paths(tree) :
        \E existing \in existing_file(existing_files, path) : is_unchanged(existing, tree[path])}

\* No stored file is taken as stale.
stale_entries_none(existing_files, seen_relative_paths) == {}

\* stale_entries: the stored files whose relative path the walk did not see.
stale_entries(existing_files, seen_relative_paths) ==
    {row \in existing_files : row.relative_path \notin seen_relative_paths}

\* The rusqlite Transaction of index_root: commit() keeps what its statements
\* wrote; dropped by an early return it rolls back to the rows at its start.
\* A transaction that keeps whatever was written when it ends.
end_transaction_autocommit(before, after, committed) == after

end_transaction(before, after, committed) == IF committed THEN after ELSE before

\* The orders in which a set can be laid out as a list.
Orderings(S) ==
    {order \in [1..Cardinality(S) -> S] :
        \A j, k \in 1..Cardinality(S) : j # k => order[j] # order[k]}

RECURSIVE write_candidates(_, _, _, _, _)
\* The loop over the parsed candidates: UPDATE the file's row or INSERT a
\* new one, delete the headings, authors and chunks of the file id and
\* insert the parsed ones.
write_candidates(db, root_id, existing_files, order, tree) ==
    IF order = <<>> THEN db
    ELSE LET path == Head(order)
             entry == tree[path]
             existing == existing_file(existing_files, path)
             file_id == IF existing # {} THEN (CHOOSE row \in existing : TRUE).id
                        ELSE next_rowid(db.files)
             row == [id |-> file_id, root_id |-> root_id, relative_path |-> path,
                     modified_ms |-> entry.modified_ms, size |-> file_size(entry.content),
                     file_hash |-> fast_file_hash(entry.content),
                     heading_count |-> Cardinality(parsed_headings(entry.content))]
             written ==
                [db EXCEPT
                    !.files = {r \in @ : r.id # file_id} \cup {row},
                    !.headings = {r \in @ : r.file_id # file_id}
                        \cup {[file_id |-> file_id, heading_order |-> o] : o \in parsed_headings(entry.content)},
                    !.authors = {r \in @ : r.file_id # file_id}
                        \cup {[file_id |-> file_id, author_order |-> o] : o \in parsed_authors(entry.content)},
                    !.chunks = {r \in @ : r.file_id # file_id}
                        \cup {[root_id |-> root_id, file_id |-> file_id, chunk_order |-> o] :
                                o \in parsed_chunks(entry.content)}]
         IN  write_candidates(written, root_id, existing_files, Tail(order), tree)

RECURSIVE headings_extracted(_, _)
\* headings_extracted += parsed.headings.len() over the candidates.
headings_extracted(order, tree) ==
    IF order = <<>> THEN 0
    ELSE Cardinality(parsed_headings(tree[Head(order)].content))
         + headings_extracted(Tail(order), tree)

IndexStats(scanned, updated, skipped, removed, headings) ==
    [scanned |-> scanned, updated |-> updated, skipped |-> skipped, removed |-> removed,
     headings_extracted |-> headings]

NoStats == IndexStats(0, 0, 0, 0, 0)

\* The InvokeResponse of a command: ok with its result, or an error.
\* `unchanged` records, for index_root, whether the tree was unchanged since
\* the previous successful index_root; `registered` whether the root had a
\* row in roots when the command arrived.
Response(command, ok, stats, unchanged) ==
    [command |-> command, ok |-> ok, stats |-> stats, unchanged |-> unchanged,
     registered |-> root_rows(ixDb, RootPath) # {}]

\* lib.rs, invoke_command: the commands that have an arm in the match.
command_arms ==
    {"add_root", "list_roots", "get_index_snapshot", "list_capture_targets",
     "get_capture_target_preview", "delete_capture_heading", "move_capture_heading",
     "add_capture_heading", "index_root", "get_file_preview", "get_heading_preview_html",
     "insert_capture", "search_index_hybrid", "benchmark_root_performance"}

MarkerFile(last_indexed_ms) == [exists |-> TRUE, last_indexed_ms |-> last_indexed_ms]
NoMarker == [exists |-> FALSE, last_indexed_ms |-> 0]

IndexIdle ==
    /\ ixTree = [path \in IndexPaths |-> AbsentEntry]
    /\ ixMarker = NoMarker
    /\ ixDb = EmptyDb
    /\ ixLexical = {}
    /\ ixRebuildTriggered = FALSE
    /\ ixClock = 0
    /\ ixUnchanged = FALSE
    /\ ixResponse = [command |-> "none", ok |-> TRUE, stats |-> NoStats,
                     unchanged |-> FALSE, registered |-> FALSE]
    /\ ixFault = "none"

\* A fresh store and a root folder holding notes.txt.
IndexInit ==
    /\ ixTree = [path \in IndexPaths |->
                    IF path = "notes.txt" THEN FileEntry(CHOOSE c \in FileContents : c.len = 1, 1)
                    ELSE AbsentEntry]
    /\ ixMarker = NoMarker
    /\ ixDb = EmptyDb
    /\ ixLexical = {}
    /\ ixRebuildTriggered = FALSE
    /\ ixClock = 0
    /\ ixUnchanged = FALSE
    /\ ixResponse = [command |-> "none", ok |-> TRUE, stats |-> NoStats,
                     unchanged |-> FALSE, registered |-> FALSE]
    /\ ixFault = "none"

\* The user or another program creates or rewrites a document under the
\* root; a.docx takes every content and modification time, the other two
\* documents one.
WriteFile ==
    \E path \in IndexPaths \ {"notes.txt"}, content \in FileContents, modified_ms \in 1..MaxMtime :
        /\ path # "a.docx" => (content.middle = "m1" /\ modified_ms = 1)
        /\ ixTree[path] # FileEntry(content, modified_ms)
        /\ ixTree' = [ixTree EXCEPT ![path] = FileEntry(content, modified_ms)]
        /\ ixUnchanged' = FALSE
        /\ UNCHANGED <<ixMarker, ixDb, ixLexical, ixRebuildTriggered, ixClock, ixResponse, ixFault, notIndex>>

\* The user or another program deletes a document under the root.
DeleteFile ==
    \E path \in IndexPaths \ {"notes.txt"} :
        /\ ixTree[path].exists
        /\ ixTree' = [ixTree EXCEPT ![path] = AbsentEntry]
        /\ ixUnchanged' = FALSE
        /\ UNCHANGED <<ixMarker, ixDb, ixLexical, ixRebuildTriggered, ixClock, ixResponse, ixFault, notIndex>>

\* invoke_command "add_root": add_or_get_root_id, write_root_index_marker(root, 0).
AddRoot ==
    /\ "add_root" \in command_arms
    /\ \E fails \in BOOLEAN :
        IF fails
        THEN /\ ixResponse' = Response("add_root", FALSE, NoStats, FALSE)
             /\ UNCHANGED <<ixDb, ixMarker>>
        ELSE /\ ixDb' = add_root_row(ixDb, RootPath)
             /\ ixMarker' = MarkerFile(0)
             /\ ixResponse' = Response("add_root", TRUE, NoStats, FALSE)
    /\ UNCHANGED <<ixTree, ixLexical, ixRebuildTriggered, ixClock, ixUnchanged, ixFault, notIndex>>

\* invoke_command "index_root": commands::index_root from its first line to
\* its return. `fault` is the step at which an error ends the run: opening
\* the store, the walk (after add_or_get_root_id), a statement of the
\* transaction, writing the marker, rebuilding the lexical index; or none.
\* `order` is the order in which the walk met the candidates.
IndexRoot ==
    /\ "index_root" \in command_arms
    /\ ixClock < MaxClock
    /\ \E fault \in {"none", "open", "walk", "transaction", "marker", "lexical"} :
        LET rooted == add_root_row(ixDb, RootPath)
            root_id == root_id_of(rooted, RootPath)
            existing_files == load_existing_files(rooted, root_id)
            scanned == walked_paths(ixTree)
            candidates == indexing_candidates(existing_files, ixTree)
            stale == stale_entries(existing_files, scanned)
            finished_at_ms == ixClock + 1
        IN
        \E order \in Orderings(candidates) :
            LET written == write_candidates(rooted, root_id, existing_files, order, ixTree)
                cleaned == delete_file_rows(written, {row.id : row \in stale})
                committed ==
                    [cleaned EXCEPT !.roots =
                        {IF row.id = root_id THEN [row EXCEPT !.last_indexed_ms = finished_at_ms]
                         ELSE row : row \in @}]
                stats == IndexStats(Cardinality(scanned), Len(order),
                                    Cardinality(skipped_paths(existing_files, ixTree)),
                                    Cardinality(stale), headings_extracted(order, ixTree))
            IN
            /\ ixClock' = finished_at_ms
            /\ ixFault' = fault
            /\ ixDb' \in
                    CASE fault = "open" -> {ixDb}
                      [] fault = "walk" -> {rooted}
                      [] fault = "transaction" ->
                            {end_transaction(rooted, partial, FALSE) :
                                partial \in {cleaned} \cup
                                    {write_candidates(rooted, root_id, existing_files,
                                                      SubSeq(order, 1, statements), ixTree) :
                                        statements \in 0..Len(order)}}
                      [] OTHER -> {end_transaction(rooted, committed, TRUE)}
            /\ ixMarker' = IF fault \in {"none", "lexical"}
                           THEN MarkerFile(finished_at_ms) ELSE ixMarker
            /\ ixLexical' = IF fault = "none" THEN {row.id : row \in committed.files}
                            ELSE ixLexical
            /\ ixRebuildTriggered' = (ixRebuildTriggered \/ fault = "none")
            /\ ixResponse' = IF fault = "none"
                             THEN Response("index_root", TRUE, stats, ixUnchanged)
                             ELSE Response("index_root", FALSE, NoStats, ixUnchanged)
            /\ ixUnchanged' = IF fault = "none" THEN TRUE ELSE ixUnchanged
    /\ UNCHANGED <<ixTree, notIndex>>

\* list_capture_targets: the entry_count it reports for a target of the
\* root, the number of capture rows of the root with that target (0 for the
\* default target when it has none).
capture_entry_count(db, path, target) ==
    Cardinality({capture \in db.captures :
                    /\ capture.root_id \in {root.id : root \in root_rows(db, path)}
                    /\ capture.target_relative_path = target})

\* invoke_command "insert_capture" with target a.docx: add_or_get_root_id,
\* INSERT INTO captures, then append_capture_to_docx, which rewrites the
\* target document or fails.
InsertCapture ==
    /\ "insert_capture" \in command_arms
    /\ Cardinality(ixDb.captures) < MaxCaptures
    /\ \E appended \in BOOLEAN, content \in {c \in FileContents : c.middle # ""},
          modified_ms \in 1..MaxMtime :
        /\ appended => ixTree["a.docx"] # FileEntry(content, modified_ms)
        /\ LET rooted == add_root_row(ixDb, RootPath)
                capture == [id |-> next_rowid(ixDb.captures),
                            root_id |-> root_id_of(rooted, RootPath),
                            target_relative_path |-> "a.docx"]
           IN
           /\ ixDb' = [rooted EXCEPT !.captures = @ \cup {capture}]
           /\ IF appended
              THEN /\ ixTree' = [ixTree EXCEPT !["a.docx"] = FileEntry(content, modified_ms)]
                   /\ ixUnchanged' = FALSE
                   /\ ixResponse' = Response("insert_capture", TRUE, NoStats, FALSE)
              ELSE /\ UNCHANGED <<ixTree, ixUnchanged>>
                   /\ ixResponse' = Response("insert_capture", FALSE, NoStats, FALSE)
    /\ UNCHANGED <<ixMarker, ixLexical, ixRebuildTriggered, ixClock, ixFault, notIndex>>

\* invoke_command "remove_root": the match has no such arm, so the request
\* ends in `_ => Err("Unknown command: remove_root")`.
InvokeRemoveRoot ==
    /\ IF "remove_root" \in command_arms
       THEN /\ ixDb' = remove_root(ixDb, RootPath)
            /\ ixMarker' = NoMarker
            /\ ixLexical' = {row.id : row \in ixDb'.files}
            /\ ixResponse' = Response("remove_root", TRUE, NoStats, FALSE)
       ELSE /\ ixResponse' = Response("remove_root", FALSE, NoStats, FALSE)
            /\ UNCHANGED <<ixDb, ixMarker, ixLexical>>
    /\ UNCHANGED <<ixTree, ixRebuildTriggered, ixClock, ixUnchanged, ixFault, notIndex>>

\* ------------------- docx_capture.rs: styles and relationships of a capture

MaxRelId == 2
MaxRefs == 2

CITATION_STYLE_PLACEHOLDER == "__BF_CITATION_STYLE__"

\* Style ids: a citation style that is based on a base style, and the
\* style apply_citation_style_placeholders falls back to.
SourceStyleIds == {"Cite", "Base"}
TargetStyleIds == {"Cite", "Quote"}

\* The basedOn / next / link values of a style definition.
dependencies(style_id) == IF style_id = "Cite" THEN {"Base"} ELSE {}

\* Relationship ids rId1 .. rId<MaxRelId>, by their number, and the
\* (rel_type, target, target_mode) definitions.
RelIds == 1..MaxRelId
RelDefs == {"u", "v"}

\* A word/_rels/document.xml.rels part: its Relationship elements, one per id.
RelationshipParts ==
    UNION {{{[id |-> id, def |-> defs[id]] : id \in ids} : defs \in [ids -> RelDefs]} :
            ids \in SUBSET RelIds}

\* A reference to a relationship in paragraph XML: on a hyperlink or blip
\* element, which extract_styled_section collects, or on another element.
RelRefs == [id : RelIds, collected : BOOLEAN]

\* extract_styled_section on a source section: style_ids are the pStyle and
\* rStyle values, relationship_ids the ids on hyperlink and blip elements.
extracted_section(style_refs, rel_refs) ==
    [style_refs |-> style_refs, rel_refs |-> rel_refs,
     style_ids |-> style_refs,
     relationship_ids |-> {rel_refs[k].id : k \in {j \in 1..Len(rel_refs) : rel_refs[j].collected}},
     used_source_xml |-> TRUE]

\* insert_capture with paragraph_xml from the client: empty style_ids and
\* relationship_ids, used_source_xml false.
client_section(style_refs, rel_refs) ==
    [style_refs |-> style_refs, rel_refs |-> rel_refs,
     style_ids |-> {}, relationship_ids |-> {}, used_source_xml |-> FALSE]

Sections ==
    {extracted_section(style_refs, rel_refs) :
        style_refs \in SUBSET {"Cite"}, rel_refs \in SeqsUpTo(RelRefs, MaxRefs)}
    \cup
    {client_section(style_refs, rel_refs) :
        style_refs \in SUBSET {"Cite", CITATION_STYLE_PLACEHOLDER},
        rel_refs \in SeqsUpTo({ref \in RelRefs : ref.collected}, MaxRefs)}

RECURSIVE visit_styles(_, _, _)
\* collect_required_style_ids: the requested ids the source defines, with
\* the dependencies of each that the source defines.
visit_styles(pending, seen, definitions) ==
    IF pending \subseteq seen THEN {style_id \in seen : style_id \in definitions}
    ELSE LET style_id == CHOOSE id \in pending \ seen : TRUE
             next == IF style_id \in definitions THEN dependencies(style_id) ELSE {}
         IN  visit_styles((pending \cup next) \ {style_id}, seen \cup {style_id}, definitions)

collect_required_style_ids(requested_ids, definitions) == visit_styles(requested_ids, {}, definitions)

\* merge_missing_styles: the ids defined by the returned styles part.
merge_missing_styles(target_styles, source_styles, requested_style_ids) ==
    IF requested_style_ids = {} \/ source_styles = {} THEN target_styles
    ELSE target_styles \cup collect_required_style_ids(requested_style_ids, source_styles)

relationship_ids_of(relationships) == {relationship.id : relationship \in relationships}

\* next_relationship_id: one more than the largest rId number.
next_relationship_id(existing_ids) ==
    IF existing_ids = {} THEN 1 ELSE Max(existing_ids) + 1

RECURSIVE merge_requested(_, _, _, _)
\* The loop of merge_relationships over the requested ids in the order the
\* HashSet yields them: the (relationships, id_remap) pairs it can end with.
\* `find` over the target HashMap returns any relationship with an equal
\* definition.
merge_requested(order, source, target, id_remap) ==
    IF order = <<>> THEN {[relationships |-> target, id_remap |-> id_remap]}
    ELSE LET requested_id == Head(order)
             found == {relationship \in source : relationship.id = requested_id}
         IN
         IF found = {} THEN merge_requested(Tail(order), source, target, id_remap)
         ELSE LET source_definition == (CHOOSE relationship \in found : TRUE).def
                  existing == {relationship \in target : relationship.id = requested_id}
                  equal == {relationship \in target : relationship.def = source_definition}
                  new_id == next_relationship_id(relationship_ids_of(target))
              IN
              IF existing = {}
              THEN merge_requested(Tail(order), source,
                        target \cup {[id |-> requested_id, def |-> source_definition]}, id_remap)
              ELSE IF \E relationship \in existing : relationship.def = source_definition
              THEN merge_requested(Tail(order), source, target, id_remap)
              ELSE IF equal # {}
              THEN UNION {merge_requested(Tail(order), source, target,
                              id_remap \cup {[from |-> requested_id, to |-> relationship.id]}) :
                          relationship \in equal}
              ELSE merge_requested(Tail(order), source,
                        target \cup {[id |-> new_id, def |-> source_definition]},
                        id_remap \cup {[from |-> requested_id, to |-> new_id]})

\* merge_relationships: every result it can return.
merge_relationships(target, source, requested_relationship_ids) ==
    IF requested_relationship_ids = {} \/ source = {}
    THEN {[relationships |-> target, id_remap |-> {}]}
    ELSE UNION {merge_requested(order, source, target, {}) :
                    order \in Orderings(requested_relationship_ids)}

RECURSIVE remap_relationship_ids(_, _)
\* remap_relationship_ids: for each (from, to) of the table, in the order the
\* HashMap yields them, replace every r:id / r:embed / r:link = from by to.
remap_relationship_ids(rel_refs, order) ==
    IF order = <<>> THEN rel_refs
    ELSE remap_relationship_ids(
            [k \in 1..Len(rel_refs) |->
                IF rel_refs[k].id = Head(order).from
                THEN [rel_refs[k] EXCEPT !.id = Head(order).to] ELSE rel_refs[k]],
            Tail(order))

citation_style_score(style_id) ==
    CASE style_id = "Cite" -> 430 [] style_id = "Quote" -> 280 [] OTHER -> 0

\* resolve_citation_paragraph_style_id and the unwrap_or("Quote") of
\* apply_citation_style_placeholders: the best-scoring style of the target,
\* or the literal "Quote".
citation_style_id(styles) ==
    LET scored == {style_id \in styles : citation_style_score(style_id) > 0} IN
    IF scored = {} THEN "Quote"
    ELSE CHOOSE style_id \in scored :
            \A other \in scored : citation_style_score(other) <= citation_style_score(style_id)

apply_citation_style_placeholders(style_refs, citation_style) ==
    {IF style_id = CITATION_STYLE_PLACEHOLDER THEN citation_style ELSE style_id :
        style_id \in style_refs}

Parts(styles, relationships) == [styles |-> styles, relationships |-> relationships]
NoSection == client_section({}, <<>>)
NoInserted == [style_refs |-> {}, rel_refs |-> <<>>]

MergeIdle ==
    /\ mgSection = NoSection
    /\ mgSource = Parts({}, {})
    /\ mgTarget = Parts({}, {})
    /\ mgInserted = NoInserted
    /\ mgRemap = {}
    /\ mgResult = "none"

\* A section to append, the source document it came from (not read for
\* paragraph XML from the client) and the capture target.
MergeInit ==
    /\ mgSection \in Sections
    /\ mgSource \in
        IF mgSection.used_source_xml
        THEN {Parts(styles, relationships) :
                styles \in SUBSET SourceStyleIds, relationships \in RelationshipParts}
        ELSE {Parts({}, {})}
    /\ mgTarget \in {Parts(styles, relationships) :
                        styles \in SUBSET TargetStyleIds, relationships \in RelationshipParts}
    /\ mgInserted = NoInserted
    /\ mgRemap = {}
    /\ mgResult = "none"

\* append_capture_to_docx: merge the styles and relationships of a section
\* taken from the source, replace the citation placeholder, insert the
\* paragraphs and rewrite the three parts; the rewrite may fail.
AppendCapture ==
    /\ mgResult = "none"
    /\ \E rewritten \in BOOLEAN :
        LET merge == mgSection.used_source_xml
            target_styles ==
                IF merge /\ mgSection.style_ids # {}
                THEN merge_missing_styles(mgTarget.styles, mgSource.styles, mgSection.style_ids)
                ELSE mgTarget.styles
            merges ==
                IF merge /\ mgSection.relationship_ids # {}
                THEN merge_relationships(mgTarget.relationships, mgSource.relationships,
                                         mgSection.relationship_ids)
                ELSE {[relationships |-> mgTarget.relationships, id_remap |-> {}]}
        IN
        \E merged \in merges :
            \E order \in Orderings(merged.id_remap) :
                IF rewritten
                THEN /\ mgTarget' = Parts(target_styles, merged.relationships)
                     /\ mgInserted' =
                            [style_refs |-> apply_citation_style_placeholders(
                                                mgSection.style_refs, citation_style_id(target_styles)),
                             rel_refs |-> remap_relationship_ids(mgSection.rel_refs, order)]
                     /\ mgRemap' = merged.id_remap
                     /\ mgResult' = "ok"
                ELSE /\ mgResult' = "err"
                     /\ UNCHANGED <<mgTarget, mgInserted, mgRemap>>
    /\ UNCHANGED <<mgSection, mgSource, notMerge>>

\* --------------------------------------- chunking.rs: chunks of a section

BASE_CHUNK_MIN_CHARS == 700
BASE_CHUNK_MAX_CHARS == 1600
BASE_CHUNK_OVERLAP_CHARS == 220
LARGE_SECTION_THRESHOLD_CHARS == 40000
HUGE_SECTION_THRESHOLD_CHARS == 180000
MAX_CHUNKS_PER_SECTION == 384

LengthStep == 100000
MaxLengthSteps == 30
MaxLeading == 1

\* A section text: `leading` whitespace characters, then `length` characters
\* in which the last `width` of every `period` are whitespace and the others
\* are letters (period 0: no whitespace).
Text(length, leading, period, width) ==
    [length |-> length, leading |-> leading, period |-> period, width |-> width]

\* (period, width) of the whitespace: none, words of six letters, a space
\* every thousand and every 2500 characters, and long blank runs.
WhitespacePatterns == {<<0, 0>>, <<7, 1>>, <<1000, 1>>, <<2500, 2>>, <<3000, 2000>>}

TextLengths ==
    {step * LengthStep : step \in 0..MaxLengthSteps}
    \cup {1, BASE_CHUNK_MAX_CHARS, BASE_CHUNK_MAX_CHARS + 1, 2 * BASE_CHUNK_MAX_CHARS,
          LARGE_SECTION_THRESHOLD_CHARS - 1, LARGE_SECTION_THRESHOLD_CHARS,
          HUGE_SECTION_THRESHOLD_CHARS - 1, HUGE_SECTION_THRESHOLD_CHARS,
          MAX_CHUNKS_PER_SECTION * 3600, MAX_CHUNKS_PER_SECTION * 3600 + 1}

Texts ==
    {Text(length, leading, pattern[1], pattern[2]) :
        length \in TextLengths, leading \in 0..MaxLeading, pattern \in WhitespacePatterns}

\* char::is_whitespace of the character at an index of the text.
is_whitespace_at(text, index) ==
    \/ index < text.leading
    \/ /\ text.period > 0
       /\ ((index - text.leading) % text.period) >= text.period - text.width

char_at(text, index) == IF is_whitespace_at(text, index) THEN " " ELSE "a"

\* The first index >= from that is not whitespace.
first_non_whitespace(text, from) ==
    IF from < text.leading THEN text.leading
    ELSE IF is_whitespace_at(text, from)
    THEN LET position == from - text.leading
         IN  text.leading + position - (position % text.period) + text.period
    ELSE from

\* The last index < to that is not whitespace, or -1.
last_non_whitespace(text, to) ==
    IF to - 1 < text.leading THEN -1
    ELSE IF is_whitespace_at(text, to - 1)
    THEN LET position == to - 1 - text.leading
         IN  text.leading + position - (position % text.period) + text.period - text.width - 1
    ELSE to - 1

\* The last index < to that is whitespace, or -1.
last_whitespace(text, to) ==
    IF to - 1 < text.leading THEN to - 1
    ELSE IF is_whitespace_at(text, to - 1) THEN to - 1
    ELSE IF text.period = 0 THEN text.leading - 1
    ELSE LET position == to - 1 - text.leading
         IN  IF position - (position % text.period) - 1 >= 0
             THEN text.leading + position - (position % text.period) - 1
             ELSE text.leading - 1

\* str::trim of the characters [from, to) of the text: the range left.
trim_chars(text, from, to) ==
    LET first == first_non_whitespace(text, from)
        last == last_non_whitespace(text, to)
    IN  IF first <= last THEN [from |-> first, to |-> last + 1] ELSE [from |-> from, to |-> from]

DivCeil(value, divisor) == (value + divisor - 1) \div divisor

ChunkProfile(min_chars, max_chars, overlap_chars) ==
    [min_chars |-> min_chars, max_chars |-> max_chars, overlap_chars |-> overlap_chars]

chunk_profile(total_chars) ==
    LET base ==
            IF total_chars >= HUGE_SECTION_THRESHOLD_CHARS THEN ChunkProfile(1800, 3600, 420)
            ELSE IF total_chars >= LARGE_SECTION_THRESHOLD_CHARS THEN ChunkProfile(1200, 2600, 320)
            ELSE ChunkProfile(BASE_CHUNK_MIN_CHARS, BASE_CHUNK_MAX_CHARS, BASE_CHUNK_OVERLAP_CHARS)
        estimated_chunks == DivCeil(total_chars, base.max_chars)
        scale == Max({DivCeil(estimated_chunks, MAX_CHUNKS_PER_SECTION), 1})
        scaled ==
            IF estimated_chunks > MAX_CHUNKS_PER_SECTION
            THEN ChunkProfile(base.min_chars * scale, base.max_chars * scale,
                              Min({base.overlap_chars * scale,
                                   Max({base.max_chars * scale - 64, 0})}))
            ELSE base
    IN  IF scaled.min_chars >= scaled.max_chars
        THEN [scaled EXCEPT !.min_chars = Max({Max({scaled.max_chars - 64, 0}), 64})]
        ELSE scaled

\* A chunk: the characters [from, to) of the text and, when the tail was
\* merged into it, a newline and the characters [tail_from, tail_to).
Chunk(from, to) == [from |-> from, to |-> to, merged |-> FALSE, tail_from |-> 0, tail_to |-> 0]

chunk_chars(chunk) ==
    (chunk.to - chunk.from) + IF chunk.merged THEN 1 + (chunk.tail_to - chunk.tail_from) ELSE 0

\* last.ends_with(&tail) for a chunk that has no merged tail.
ends_with(text, last, tail) ==
    /\ tail.to - tail.from <= last.to - last.from
    /\ \A offset \in 0..(tail.to - tail.from - 1) :
            char_at(text, last.to - (tail.to - tail.from) + offset)
                = char_at(text, tail.from + offset)

\* Lines 111-125: the characters from `start` on, trimmed, are pushed as one
\* more chunk every time, without looking at the number of chunks.
finish_tail_uncapped(text, end, chunks, start) ==
    LET tail == trim_chars(text, start, end) IN
    IF start < end /\ tail.to > tail.from THEN Append(chunks, Chunk(tail.from, tail.to))
    ELSE chunks

\* Lines 111-125: the characters from `start` on, trimmed, are pushed as one
\* more chunk, or at MAX_CHUNKS_PER_SECTION appended to the last chunk unless
\* it already ends with them.
finish_tail(text, end, chunks, start) ==
    LET tail == trim_chars(text, start, end) IN
    IF start < end /\ tail.to > tail.from
    THEN IF Len(chunks) >= MAX_CHUNKS_PER_SECTION
         THEN IF chunks # <<>> /\ ~ends_with(text, chunks[Len(chunks)], tail)
              THEN [chunks EXCEPT ![Len(chunks)] =
                        [@ EXCEPT !.merged = TRUE, !.tail_from = tail.from, !.tail_to = tail.to]]
              ELSE chunks
         ELSE Append(chunks, Chunk(tail.from, tail.to))
    ELSE chunks

\* One pass of the while loop of split_text_into_chunks over the characters
\* up to `end`: the chunks so far, the next start, and whether the loop goes
\* on (its condition held and it did not break).
loop_body(text, end, profile, loop) ==
    IF ~(loop.running /\ loop.start < end /\ Len(loop.chunks) < MAX_CHUNKS_PER_SECTION)
    THEN [loop EXCEPT !.running = FALSE]
    ELSE LET start == loop.start
             max_end == Min({start + profile.max_chars, end})
             min_end == Min({start + profile.min_chars, max_end})
             whitespace == last_whitespace(text, max_end)
             found == IF whitespace >= min_end THEN whitespace ELSE max_end
             cut == IF found <= start THEN max_end ELSE found
             chunk_text == trim_chars(text, start, cut)
             pushed == IF chunk_text.to > chunk_text.from
                       THEN Append(loop.chunks, Chunk(chunk_text.from, chunk_text.to))
                       ELSE loop.chunks
             advanced == Max({cut - start, 0})
             overlap == Min({profile.overlap_chars, Max({advanced - 1, 0})})
             next_start == Max({cut - overlap, 0})
         IN  IF cut >= end THEN [chunks |-> pushed, start |-> start, running |-> FALSE]
             ELSE [chunks |-> pushed,
                   start |-> IF next_start <= start THEN cut ELSE next_start,
                   running |-> TRUE]

RECURSIVE split_loop(_, _, _, _, _)
\* The while loop run for at most `passes` passes, by halves; every pass
\* moves the start forward, so the loop ends within one pass per character.
split_loop(text, end, profile, loop, passes) ==
    IF ~loop.running \/ passes = 0 THEN loop
    ELSE IF passes = 1 THEN loop_body(text, end, profile, loop)
    ELSE split_loop(text, end, profile,
                    split_loop(text, end, profile, loop, passes \div 2),
                    passes - (passes \div 2))

\* split_text_into_chunks: the chunks of the trimmed text, as ranges of
\* character indices of the text.
split_text_into_chunks(text) ==
    LET trimmed == trim_chars(text, 0, text.leading + text.length)
        total_chars == trimmed.to - trimmed.from
        profile == chunk_profile(total_chars)
    IN  IF total_chars = 0 THEN <<>>
        ELSE IF total_chars <= profile.max_chars THEN <<Chunk(trimmed.from, trimmed.to)>>
        ELSE LET loop == split_loop(text, trimmed.to, profile,
                                    [chunks |-> <<>>, start |-> trimmed.from, running |-> TRUE],
                                    total_chars + 1)
             IN  finish_tail(text, trimmed.to, loop.chunks, loop.start)

ChunkIdle ==
    /\ ckText = Text(0, 0, 0, 0)
    /\ ckChunks = <<>>
    /\ ckDone = FALSE

ChunkInit ==
    /\ ckText \in Texts
    /\ ckChunks = <<>>
    /\ ckDone = FALSE

SplitTextIntoChunks ==
    /\ ~ckDone
    /\ ckChunks' = split_text_into_chunks(ckText)
    /\ ckDone' = TRUE
    /\ UNCHANGED <<ckText, notChunk>>

\* ------------------------------- semantic.rs: the single-flight rebuild

MaxCallers == 2
MaxFingerprint == 2

\* The threads that run commands.
Callers == 1..MaxCallers

\* The commands of the model: index_root ends with trigger_rebuild(app, true),
\* search_hybrid in hybrid mode starts with trigger_rebuild(app, false), and
\* in lexical mode triggers nothing.
RebuildCommands == {"index_root", "search_hybrid", "search_lexical"}

IdleCaller == [pc |-> "idle", command |-> "none", force |-> FALSE, spawned |-> FALSE]
\* The root_fingerprint_ms a rebuild task has read, if it has.
NotRead == [some |-> FALSE, value |-> 0]
NoTask == [pc |-> "none", force |-> FALSE, ok |-> TRUE, fingerprint |-> NotRead]
NoCommand ==
    [caller |-> 0, command |-> "none", spawned |-> FALSE, lexical_failed |-> FALSE,
     semantic_failed |-> FALSE, ok |-> TRUE]

\* AtomicBool::compare_exchange that stores `new` whatever the flag holds.
compare_exchange_unconditional(flag, current, new) == [ok |-> TRUE, flag |-> new]

\* AtomicBool::compare_exchange(current, new, SeqCst, SeqCst).
compare_exchange(flag, current, new) ==
    IF flag = current THEN [ok |-> TRUE, flag |-> new] ELSE [ok |-> FALSE, flag |-> flag]

\* semantic_index_is_stale(&app).unwrap_or(false).
semantic_index_is_stale(database_opens, fingerprint, meta) ==
    database_opens /\ fingerprint # 0 /\ meta < fingerprint

\* A rebuild that succeeds without a fault and never writes the metadata.
rebuild_semantic_index_without_meta(force, fingerprint, meta, table, candidates, fault) ==
    [ok |-> fault = "none", meta |-> meta, table |-> table]

\* rebuild_semantic_index: its result and what it leaves of the metadata
\* file and the table. `fault` is the step that fails, `candidates` whether
\* load_semantic_candidates found any.
rebuild_semantic_index(force, fingerprint, meta, table, candidates, fault) ==
    LET unchanged(ok) == [ok |-> ok, meta |-> meta, table |-> table] IN
    IF fault = "open" THEN unchanged(FALSE)
    ELSE IF fingerprint <= 0 THEN unchanged(TRUE)
    ELSE IF ~force /\ meta >= fingerprint THEN unchanged(TRUE)
    ELSE IF ~candidates
    THEN IF fault = "meta" THEN unchanged(FALSE)
         ELSE [ok |-> TRUE, meta |-> fingerprint, table |-> table]
    ELSE IF fault = "embed" THEN unchanged(FALSE)
    ELSE IF fault = "table" THEN [ok |-> FALSE, meta |-> meta, table |-> "broken"]
    ELSE IF fault = "meta" THEN [ok |-> FALSE, meta |-> meta, table |-> "built"]
    ELSE [ok |-> TRUE, meta |-> fingerprint, table |-> "built"]

\* The flag is left set when the rebuild failed.
flag_after_rebuild_if_ok(ok) == ~ok

\* The spawned task after rebuild_semantic_index returned: the error, if
\* any, is printed, then SEMANTIC_REBUILD_IN_FLIGHT.store(false).
flag_after_rebuild(ok) == FALSE

RebuildIdle ==
    /\ rbInFlight = FALSE
    /\ rbTask = [caller \in Callers |-> NoTask]
    /\ rbCaller = [caller \in Callers |-> IdleCaller]
    /\ rbFingerprint = 0
    /\ rbMeta = 0
    /\ rbTable = "absent"
    /\ rbLastRebuild = "none"
    /\ rbLast = NoCommand

\* A process that has just started on a store holding no root.
RebuildInit == RebuildIdle

\* now_ms() at a commit of index_root: later than every last_indexed_ms
\* written before it. The values written before it that are still held
\* somewhere are the ones compared with it.
now_ms_after(fingerprint, meta, tasks) ==
    Max({fingerprint, meta} \cup {tasks[caller].fingerprint.value : caller \in Callers}) + 1

\* A caller starts a command. index_root runs to its commit, which sets
\* roots.last_indexed_ms, before it reaches trigger_rebuild; a lexical search
\* runs to its end without a trigger.
Invoke(caller) ==
    /\ rbCaller[caller].pc = "idle"
    /\ \E command \in RebuildCommands, lexical_fails \in BOOLEAN :
        CASE command = "index_root" ->
                /\ now_ms_after(rbFingerprint, rbMeta, rbTask) <= MaxFingerprint
                /\ rbFingerprint' = now_ms_after(rbFingerprint, rbMeta, rbTask)
                /\ rbCaller' = [rbCaller EXCEPT ![caller] =
                        [pc |-> "trigger", command |-> command, force |-> TRUE, spawned |-> FALSE]]
                /\ UNCHANGED rbLast
          [] command = "search_hybrid" ->
                /\ rbCaller' = [rbCaller EXCEPT ![caller] =
                        [pc |-> "trigger", command |-> command, force |-> FALSE, spawned |-> FALSE]]
                /\ UNCHANGED <<rbFingerprint, rbLast>>
          [] OTHER ->
                /\ rbLast' = [caller |-> caller, command |-> command, spawned |-> FALSE,
                              lexical_failed |-> lexical_fails, semantic_failed |-> FALSE,
                              ok |-> ~lexical_fails]
                /\ UNCHANGED <<rbFingerprint, rbCaller>>
    /\ UNCHANGED <<rbInFlight, rbTask, rbMeta, rbTable, rbLastRebuild, notRebuild>>

\* remove_root, which triggers no rebuild: it deletes the root whose
\* last_indexed_ms is the greatest, which leaves an older greatest value or
\* no root at all.
RemoveIndexedRoot(caller) ==
    /\ rbCaller[caller].pc = "idle"
    /\ rbFingerprint > 0
    /\ rbFingerprint' \in 0..(rbFingerprint - 1)
    /\ UNCHANGED <<rbInFlight, rbTask, rbCaller, rbMeta, rbTable, rbLastRebuild, rbLast,
                   notRebuild>>

\* trigger_semantic_rebuild, first half: should_rebuild, and the return when
\* it is false.
ShouldRebuild(caller) ==
    /\ rbCaller[caller].pc = "trigger"
    /\ \E database_opens \in BOOLEAN :
        LET should_rebuild ==
                rbCaller[caller].force
                \/ semantic_index_is_stale(database_opens, rbFingerprint, rbMeta)
        IN  rbCaller' = [rbCaller EXCEPT ![caller].pc = IF should_rebuild THEN "cas" ELSE "return"]
    /\ UNCHANGED <<rbInFlight, rbTask, rbFingerprint, rbMeta, rbTable, rbLastRebuild, rbLast,
                   notRebuild>>

\* trigger_semantic_rebuild, second half: the compare_exchange, and the
\* spawn of the rebuild task when it succeeded.
CompareExchange(caller) ==
    /\ rbCaller[caller].pc = "cas"
    /\ LET exchanged == compare_exchange(rbInFlight, FALSE, TRUE) IN
        /\ rbInFlight' = exchanged.flag
        /\ rbTask' = IF exchanged.ok
                     THEN [rbTask EXCEPT ![caller] =
                            [pc |-> "running", force |-> rbCaller[caller].force, ok |-> TRUE,
                             fingerprint |-> NotRead]]
                     ELSE rbTask
        /\ rbCaller' = [rbCaller EXCEPT ![caller].pc = "return", ![caller].spawned = exchanged.ok]
    /\ UNCHANGED <<rbFingerprint, rbMeta, rbTable, rbLastRebuild, rbLast, notRebuild>>

\* The command after the trigger: index_root returns its stats; search_hybrid
\* joins the lexical and the semantic search, `lexical_result?`,
\* `semantic_result.unwrap_or_default()`. The semantic search finds no table
\* (and returns no hits) or reads the table, and may fail.
Return(caller) ==
    /\ rbCaller[caller].pc = "return"
    /\ \E lexical_fails, semantic_fails \in BOOLEAN :
        LET search == rbCaller[caller].command = "search_hybrid"
            lexical_result ==
                IF lexical_fails THEN Err("Lexical search execution failed")
                ELSE Ok(<<lexical_hit("A", 0)>>)
            semantic_result ==
                IF semantic_fails THEN Err("Semantic search execution failed")
                ELSE Ok(IF rbTable = "built" THEN <<semantic_hit("B", 0)>> ELSE <<>>)
            limit == effective_limit([some |-> FALSE, value |-> 0])
        IN
        /\ search \/ (~lexical_fails /\ ~semantic_fails)
        /\ rbTable = "absent" => ~semantic_fails
        /\ \E outcome \in IF search THEN hybrid_outcome(lexical_result, semantic_result, limit)
                          ELSE {Ok(<<>>)} :
            rbLast' = [caller |-> caller, command |-> rbCaller[caller].command,
                       spawned |-> rbCaller[caller].spawned,
                       lexical_failed |-> lexical_fails, semantic_failed |-> semantic_fails,
                       ok |-> outcome.ok]
    /\ rbCaller' = [rbCaller EXCEPT ![caller] = IdleCaller]
    /\ UNCHANGED <<rbInFlight, rbTask, rbFingerprint, rbMeta, rbTable, rbLastRebuild, notRebuild>>

\* The spawned task: rebuild_semantic_index reads root_fingerprint_ms from
\* the roots table.
RebuildStarts(caller) ==
    /\ rbTask[caller].pc = "running"
    /\ ~rbTask[caller].fingerprint.some
    /\ rbTask' = [rbTask EXCEPT ![caller].fingerprint = [some |-> TRUE, value |-> rbFingerprint]]
    /\ UNCHANGED <<rbInFlight, rbCaller, rbFingerprint, rbMeta, rbTable, rbLastRebuild, rbLast,
                   notRebuild>>

\* The spawned task: rebuild_semantic_index(app, force).await returns.
RebuildReturns(caller) ==
    /\ rbTask[caller].pc = "running"
    /\ rbTask[caller].fingerprint.some
    /\ \E candidates \in BOOLEAN, fault \in {"none", "open", "embed", "table", "meta"} :
        LET rebuilt == rebuild_semantic_index(rbTask[caller].force,
                                              rbTask[caller].fingerprint.value, rbMeta,
                                              rbTable, candidates, fault)
        IN
        /\ rbMeta' = rebuilt.meta
        /\ rbTable' = rebuilt.table
        /\ rbTask' = [rbTask EXCEPT ![caller] =
                        [pc |-> "returned", force |-> @.force, ok |-> rebuilt.ok,
                         fingerprint |-> NotRead]]
    /\ UNCHANGED <<rbInFlight, rbCaller, rbFingerprint, rbLastRebuild, rbLast, notRebuild>>

\* The spawned task: eprintln of the error, if any, then
\* SEMANTIC_REBUILD_IN_FLIGHT.store(false), and the task ends.
StoreFlag(caller) ==
    /\ rbTask[caller].pc = "returned"
    /\ rbInFlight' = flag_after_rebuild(rbTask[caller].ok)
    /\ rbLastRebuild' = IF rbTask[caller].ok THEN "ok" ELSE "err"
    /\ rbTask' = [rbTask EXCEPT ![caller] = NoTask]
    /\ UNCHANGED <<rbCaller, rbFingerprint, rbMeta, rbTable, rbLast, notRebuild>>

\* ------------------------------------- query_engine.rs: the query cache

CACHE_CAPACITY == 480
MaxCacheOps == 3

\* The cache after put of the keys 1..n in turn, each a new key.
FilledOrder(n) == [index \in 1..n |-> index]
FillLevels == {0, 1, 2, CACHE_CAPACITY - 1, CACHE_CAPACITY}

\* VecDeque::retain(|item| item != &key).
retain(order, key) == SelectSeq(order, LAMBDA item : item # key)

\* QueryCache::get: whether it returns the entry's results. It reads
\* `entries` and changes nothing.
QueryCache_get(entries, key, expired) == key \in entries /\ ~expired

RECURSIVE pop_while_over(_, _, _)
\* The loop `while self.order.len() > CACHE_CAPACITY`: pop_front and remove
\* the entry; `evicted` collects the keys removed.
pop_while_over(order, entries, evicted) ==
    IF Len(order) > CACHE_CAPACITY
    THEN pop_while_over(Tail(order), entries \ {Head(order)}, Append(evicted, Head(order)))
    ELSE [order |-> order, entries |-> entries, evicted |-> evicted]

\* QueryCache::put.
QueryCache_put(order, entries, key) ==
    LET retained == IF key \in entries THEN retain(order, key) ELSE order
    IN  pop_while_over(Append(retained, key), entries \cup {key}, <<>>)

NoEviction == [happened |-> FALSE, evicted |-> 0, least_recent |-> 0]

\* The keys a call can name: the oldest two, the newest, and a new one.
CallKeys(order) ==
    {order[index] : index \in {1, 2, Len(order)} \cap DOMAIN order}
    \cup {Max({0} \cup {order[index] : index \in DOMAIN order}) + 1}

CacheIdle ==
    /\ qcOrder = <<>>
    /\ qcEntries = {}
    /\ qcRecency = <<>>
    /\ qcEviction = NoEviction
    /\ qcOps = 0

CacheInit ==
    /\ \E filled \in FillLevels :
        /\ qcOrder = FilledOrder(filled)
        /\ qcEntries = 1..filled
        /\ qcRecency = FilledOrder(filled)
    /\ qcEviction = NoEviction
    /\ qcOps = 0

\* cache.get(&key) under the mutex of query_cache().
CacheGet ==
    /\ qcOps < MaxCacheOps
    /\ \E key \in CallKeys(qcOrder), expired \in BOOLEAN :
        /\ qcRecency' = IF QueryCache_get(qcEntries, key, expired)
                        THEN Append(retain(qcRecency, key), key) ELSE qcRecency
    /\ qcOps' = qcOps + 1
    /\ UNCHANGED <<qcOrder, qcEntries, qcEviction, notCache>>

\* cache.put(key, results) under the mutex of query_cache().
CachePut ==
    /\ qcOps < MaxCacheOps
    /\ \E key \in CallKeys(qcOrder) :
        LET cache == QueryCache_put(qcOrder, qcEntries, key)
            used == Append(retain(qcRecency, key), key)
        IN
        /\ qcOrder' = cache.order
        /\ qcEntries' = cache.entries
        /\ qcRecency' = SelectSeq(used, LAMBDA item : item \in cache.entries)
        /\ qcEviction' = IF cache.evicted = <<>> THEN qcEviction
                         ELSE [happened |-> TRUE, evicted |-> cache.evicted[1],
                               least_recent |-> Head(retain(qcRecency, key))]
    /\ qcOps' = qcOps + 1
    /\ UNCHANGED notCache

\* ------------------------------------ db.rs: the persistent index layout

INDEX_LAYOUT_VERSION == 2
MaxVersion == 3

\* A directory of the layout: absent, empty, or holding data. The meta
\* directory can also hold a database with the schema and no rows ("fresh").
DirStates == {"absent", "empty", "data"}
MetaStates == DirStates \cup {"fresh"}

\* The "version" read from layout.json: [some, value]; none when the file is
\* missing, is no JSON, or has no integer "version".
NoVersion == [some |-> FALSE, value |-> 0]
SomeVersion(value) == [some |-> TRUE, value |-> value]

Disk(legacy_database, legacy_semantic_dir, legacy_semantic_meta, layout, manifest,
     meta, lexical, vector) ==
    [legacy_database |-> legacy_database, legacy_semantic_dir |-> legacy_semantic_dir,
     legacy_semantic_meta |-> legacy_semantic_meta, layout |-> layout, manifest |-> manifest,
     meta |-> meta, lexical |-> lexical, vector |-> vector]

EmptyDisk == Disk(FALSE, FALSE, FALSE, "absent", NoVersion, "absent", "absent", "absent")

\* The app data dir as a former run of this or an older version can have
\* left it: index-v2 is absent, a file, or a directory with or without a
\* manifest.
Disks ==
    {Disk(legacy_database, legacy_semantic_dir, legacy_semantic_meta, layout, NoVersion,
          "absent", "absent", "absent") :
        legacy_database \in BOOLEAN, legacy_semantic_dir \in BOOLEAN,
        legacy_semantic_meta \in BOOLEAN, layout \in {"absent", "file"}}
    \cup
    {Disk(legacy_database, legacy_semantic_dir, legacy_semantic_meta, "dir", manifest,
          meta, lexical, vector) :
        legacy_database \in BOOLEAN, legacy_semantic_dir \in BOOLEAN,
        legacy_semantic_meta \in BOOLEAN,
        manifest \in {NoVersion} \cup {SomeVersion(value) : value \in 1..MaxVersion},
        meta \in MetaStates, lexical \in DirStates, vector \in DirStates}

\* A manifest of any version up to the current one is taken as current.
is_current_version_or_older(current_version) ==
    current_version.some /\ current_version.value <= INDEX_LAYOUT_VERSION

\* current_version == Some(INDEX_LAYOUT_VERSION).
is_current_version(current_version) ==
    current_version.some /\ current_version.value = INDEX_LAYOUT_VERSION

\* fs::create_dir_all of a directory of the layout.
create_dir_all(state) == IF state = "absent" THEN "empty" ELSE state

\* The fallible steps of ensure_index_layout in the order of the code: on
\* the current version the three create_dir_all; else the four
\* remove_path_if_exists (1..4), the three create_dir_all (5..7) and the
\* write of the manifest (8).
LayoutSteps(current) == IF current THEN 5..7 ELSE 1..8

\* Whether the step does anything that can fail: remove_path_if_exists
\* returns Ok for a path that does not exist.
step_can_fail(disk, step) ==
    CASE step = 1 -> disk.legacy_database
      [] step = 2 -> disk.legacy_semantic_dir
      [] step = 3 -> disk.legacy_semantic_meta
      [] step = 4 -> disk.layout # "absent"
      [] OTHER -> TRUE

layout_step(disk, step) ==
    CASE step = 1 -> [disk EXCEPT !.legacy_database = FALSE]
      [] step = 2 -> [disk EXCEPT !.legacy_semantic_dir = FALSE]
      [] step = 3 -> [disk EXCEPT !.legacy_semantic_meta = FALSE]
      [] step = 4 -> [disk EXCEPT !.layout = "absent", !.manifest = NoVersion,
                                  !.meta = "absent", !.lexical = "absent", !.vector = "absent"]
      [] step = 5 -> [disk EXCEPT !.layout = "dir", !.meta = create_dir_all(@)]
      [] step = 6 -> [disk EXCEPT !.layout = "dir", !.lexical = create_dir_all(@)]
      [] step = 7 -> [disk EXCEPT !.layout = "dir", !.vector = create_dir_all(@)]
      [] OTHER -> [disk EXCEPT !.manifest = SomeVersion(INDEX_LAYOUT_VERSION)]

RECURSIVE run_layout_steps(_, _, _, _)
run_layout_steps(disk, step, last, fault) ==
    IF step > last THEN [ok |-> TRUE, disk |-> disk]
    ELSE IF fault = step /\ step_can_fail(disk, step) THEN [ok |-> FALSE, disk |-> disk]
    ELSE run_layout_steps(layout_step(disk, step), step + 1, last, fault)

\* ensure_index_layout; `fault` is the step that fails, 0 for none.
ensure_index_layout(disk, fault) ==
    LET current == is_current_version(disk.manifest) IN
    run_layout_steps(disk, IF current THEN 5 ELSE 1, IF current THEN 7 ELSE 8, fault)

\* Connection::open and the CREATE TABLE IF NOT EXISTS statements of
\* open_database: a meta directory without a database gets a fresh one.
connection_open(disk) ==
    [disk EXCEPT !.meta = IF @ \in {"absent", "empty"} THEN "fresh" ELSE @]

LayoutIdle ==
    /\ lyDisk = EmptyDisk
    /\ lyBefore = EmptyDisk
    /\ lyResult = "none"

LayoutInit ==
    /\ lyDisk \in Disks
    /\ lyBefore = lyDisk
    /\ lyResult = "none"

\* open_database: ensure_index_layout, then Connection::open and the schema.
OpenDatabase ==
    /\ lyResult = "none"
    /\ \E fault \in 0..9 :
        LET ensured == ensure_index_layout(lyDisk, fault) IN
        IF ~ensured.ok
        THEN lyDisk' = ensured.disk /\ lyResult' = "err"
        ELSE IF fault = 9
        THEN lyDisk' = ensured.disk /\ lyResult' = "err"
        ELSE lyDisk' = connection_open(ensured.disk) /\ lyResult' = "ok"
    /\ UNCHANGED <<lyBefore, notLayout>>

\* --------------------------------------- util.rs: the author candidates

MAX_AUTHORS == 120
MaxTail == 3

\* A text is the sequence of its tokens: a word (with or without upper-case
\* letters), a comma, a four-digit number, one of the source-marker words
\* ("journal", "press", ...) or a word holding "http" or "doi".
Word(value, upper) == [kind |-> "word", value |-> value, upper |-> upper]
Comma == [kind |-> "comma", value |-> 0, upper |-> FALSE]
Number(value) == [kind |-> "number", value |-> value, upper |-> FALSE]
Marker(upper) == [kind |-> "marker", value |-> 0, upper |-> upper]
Url == [kind |-> "url", value |-> 0, upper |-> FALSE]

\* normalize_for_search on tokens: punctuation becomes a separator, letters
\* are lower-cased, the words are joined by single spaces.
normalize_for_search_tokens(text) ==
    LET words == SelectSeq(text, LAMBDA token : token.kind # "comma") IN
    [index \in 1..Len(words) |-> [words[index] EXCEPT !.upper = FALSE]]

\* contains_year_token: a run of four digits between 1900 and 2099.
contains_year_token(normalized) ==
    \E index \in 1..Len(normalized) :
        /\ normalized[index].kind = "number"
        /\ normalized[index].value >= 1900
        /\ normalized[index].value <= 2099

\* is_probable_author_line: the commas are counted in the text as given,
\* everything else in the normalized text.
is_probable_author_line(text) ==
    LET normalized == normalize_for_search_tokens(text)
        word_count == Len(normalized)
        comma_count == Len(SelectSeq(text, LAMBDA token : token.kind = "comma"))
        has_source_marker == \E index \in 1..Len(normalized) : normalized[index].kind = "marker"
        looks_like_url_line == \E index \in 1..Len(normalized) : normalized[index].kind = "url"
    IN  /\ normalized # <<>>
        /\ word_count >= 3 /\ word_count <= 90
        /\ contains_year_token(normalized)
        /\ (comma_count >= 2 \/ has_source_marker \/ looks_like_url_line)
        /\ word_count >= 5

\* HashSet::insert reports every value as new.
HashSet_insert_always(seen, value) == [inserted |-> TRUE, set |-> seen \cup {value}]

\* HashSet::insert: whether the value was new, and the set afterwards.
HashSet_insert(seen, value) == [inserted |-> value \notin seen, set |-> seen \cup {value}]

\* One pass of the for loop of extract_author_candidates, on paragraph
\* loop.index.
extract_loop_body(paragraphs, loop) ==
    LET paragraph == paragraphs[loop.index]
        normalized == normalize_for_search_tokens(paragraph.text)
        insert == HashSet_insert(loop.seen, normalized)
        next == [loop EXCEPT !.index = @ + 1]
    IN  IF ~is_probable_author_line(paragraph.text) THEN next
        ELSE IF normalized = <<>> THEN next
        ELSE IF ~insert.inserted THEN [next EXCEPT !.seen = insert.set]
        ELSE LET pushed == Append(loop.authors, [order |-> paragraph.order, text |-> paragraph.text])
             IN  [next EXCEPT !.seen = insert.set, !.authors = pushed,
                              !.running = Len(pushed) < MAX_AUTHORS]

RECURSIVE extract_loop(_, _, _)
\* The for loop run for at most `passes` paragraphs, by halves.
extract_loop(paragraphs, loop, passes) ==
    IF ~loop.running \/ passes = 0 THEN loop
    ELSE IF passes = 1 THEN extract_loop_body(paragraphs, loop)
    ELSE extract_loop(paragraphs, extract_loop(paragraphs, loop, passes \div 2),
                      passes - (passes \div 2))

extract_author_candidates(paragraphs) ==
    extract_loop(paragraphs, [index |-> 1, seen |-> {}, authors |-> <<>>, running |-> TRUE],
                 Len(paragraphs)).authors

\* "Name<,>* and n 2021 <journal | other>": the citation line number n.
CitationLine(n, commas, upper, marker) ==
    <<Word(1, upper)>> \o [index \in 1..commas |-> Comma]
        \o <<Word(2, FALSE), Word(100 + n, FALSE), Number(2021)>>
        \o <<IF marker THEN Marker(upper) ELSE Word(3, FALSE)>>

\* n citation lines, no two with the same normalized text.
FilledTexts(n) == [index \in 1..n |-> CitationLine(index, 2, FALSE, FALSE)]
FillCounts == {0, 1, 2, MAX_AUTHORS - 2, MAX_AUTHORS - 1, MAX_AUTHORS}

\* What follows them: repeats of line 1 in another case or with another
\* comma, a line without commas and the same line with them, a line with a
\* source marker, a line with a link, a line with a year out of range, a
\* plain three-word line.
TailTexts ==
    {CitationLine(1, 2, TRUE, FALSE), CitationLine(1, 3, FALSE, FALSE),
     CitationLine(MAX_AUTHORS + 1, 0, FALSE, FALSE), CitationLine(MAX_AUTHORS + 1, 2, FALSE, FALSE),
     CitationLine(MAX_AUTHORS + 2, 0, TRUE, TRUE),
     <<Word(1, FALSE), Word(2, FALSE), Word(3, FALSE), Number(1999), Url>>,
     <<Word(1, TRUE), Comma, Word(2, FALSE), Comma, Word(3, FALSE), Word(4, FALSE), Number(1850)>>,
     <<Word(4, TRUE), Word(5, FALSE), Word(6, FALSE)>>}

\* The paragraphs of a parsed document: the order is the position.
ParsedParagraphs(texts) == [index \in 1..Len(texts) |-> [order |-> index, text |-> texts[index]]]

ParagraphLists(max_tail) ==
    {ParsedParagraphs(FilledTexts(n) \o tail) : n \in FillCounts, tail \in SeqsUpTo(TailTexts, max_tail)}

AuthorsIdle ==
    /\ acParagraphs = <<>>
    /\ acAuthors = <<>>
    /\ acDone = FALSE

AuthorsInit ==
    /\ acParagraphs \in ParagraphLists(MaxTail)
    /\ acAuthors = <<>>
    /\ acDone = FALSE

ExtractAuthorCandidates ==
    /\ ~acDone
    /\ acAuthors' = extract_author_candidates(acParagraphs)
    /\ acDone' = TRUE
    /\ UNCHANGED <<acParagraphs, notAuthors>>

\* ------------------------------------ commands.rs: move_capture_heading

MaxTags == 5

\* The children of <w:body>, in the order of the text: a whole <w:p> element
\* (with the level detect_heading_level finds, 0 for None), the opening tags
\* <w:tbl><w:tr><w:tc> of a one-cell table, its closing tags, or <w:sectPr/>.
\* `id` is the position of the tag in the document as it was first read.
Tag(tag_kind, detected_level) ==
    [kind |-> tag_kind, id |-> 0, detected_level |-> detected_level,
     author_line |-> FALSE, is_f8_cite |-> FALSE]
TagKinds ==
    {Tag("p", level) : level \in 0..MaxLevel} \cup {Tag("tbl", 0), Tag("/tbl", 0)}
SectPr == Tag("sectPr", 0)

RECURSIVE tag_depth(_, _, _)
\* The depth of open tables after each tag, -1 once a closing tag has no
\* opening one.
tag_depth(xml, index, depth) ==
    IF depth < 0 \/ index > Len(xml) THEN depth
    ELSE tag_depth(xml, index + 1,
                   CASE xml[index].kind = "tbl" -> depth + 1
                     [] xml[index].kind = "/tbl" -> depth - 1
                     [] OTHER -> depth)

\* Document::parse: whether the text is well-formed XML.
Document_parse(xml) == tag_depth(xml, 1, 0) = 0

\* document.descendants().filter(has_tag "p"): the positions of the <w:p>
\* elements in the text, in document order, table cells included.
paragraph_nodes(xml) ==
    SortedSeq({index \in 1..Len(xml) : xml[index].kind = "p"})

\* The <w:p> elements themselves, as parse_docx_paragraphs reads them.
xml_paragraphs(xml) ==
    LET nodes == paragraph_nodes(xml) IN [position \in 1..Len(nodes) |-> xml[nodes[position]]]

WithIds(xml) == [index \in 1..Len(xml) |-> [xml[index] EXCEPT !.id = index]]

\* The documents of up to max_tags tags: well-formed, with a final
\* <w:sectPr/> or none.
MoveDocuments(max_tags) ==
    {WithIds(body \o tail) :
        body \in {xml \in SeqsUpTo(TagKinds, max_tags) : Document_parse(xml)},
        tail \in {<<>>, <<SectPr>>}}

NoIndex == [some |-> FALSE, value |-> 0]
SomeIndex(value) == [some |-> TRUE, value |-> value]

\* fallback_body_insertion_index: the offset of the last "<w:sectPr" of the
\* body, or of "</w:body>". Offsets count the tags before the place.
fallback_body_insertion_index(xml) ==
    LET section_props == {index \in 1..Len(xml) : xml[index].kind = "sectPr"} IN
    IF section_props # {} THEN Max(section_props) - 1 ELSE Len(xml)

\* insertion_index_after_paragraph_count: the end of the paragraph_count-th
\* <w:p> of the text, the start of the body for 0, None when the text does
\* not parse or has fewer paragraphs.
insertion_index_after_paragraph_count(xml, paragraph_count) ==
    IF paragraph_count = 0 THEN SomeIndex(0)
    ELSE IF ~Document_parse(xml) THEN NoIndex
    ELSE IF paragraph_count > Len(paragraph_nodes(xml)) THEN NoIndex
    ELSE SomeIndex(paragraph_nodes(xml)[paragraph_count])

\* The test of "Cannot move a heading into its own subtree."
is_own_subtree(source_range, target_range) ==
    /\ target_range.start_index >= source_range.start_index
    /\ target_range.start_index < source_range.end_index

\* usize::saturating_sub.
saturating_sub(a, b) == IF a >= b THEN a - b ELSE 0

\* move_capture_heading on an existing capture file: how it returns and the
\* body it leaves in the file.
move_capture_heading(xml, source_heading_order, target_heading_order) ==
    LET paragraphs == parse_docx_paragraphs(xml_paragraphs(xml))
        heading_ranges == build_heading_ranges(paragraphs)
        sources == {i \in 1..Len(heading_ranges) : heading_ranges[i].order = source_heading_order}
        targets == {i \in 1..Len(heading_ranges) : heading_ranges[i].order = target_heading_order}
        unchanged(result) == [result |-> result, xml |-> xml]
    IN  IF source_heading_order = target_heading_order THEN unchanged("ok")
        ELSE IF sources = {} \/ targets = {} THEN unchanged("err")
        ELSE
        LET source_range == heading_ranges[Min(sources)]
            target_range == heading_ranges[Min(targets)]
            nodes == paragraph_nodes(xml)
        IN  IF is_own_subtree(source_range, target_range) THEN unchanged("err")
            ELSE IF \/ source_range.start_index >= Len(nodes)
                    \/ source_range.end_index = 0
                    \/ source_range.end_index > Len(nodes)
                    \/ target_range.start_index >= Len(nodes)
                    \/ target_range.end_index = 0
                    \/ target_range.end_index > Len(nodes)
            THEN unchanged("err")
            ELSE
            LET source_start == nodes[source_range.start_index + 1] - 1
                source_end == nodes[source_range.end_index]
                moved_fragment == SubSeq(xml, source_start + 1, source_end)
                without_source == SubSeq(xml, 1, source_start) \o SubSeq(xml, source_end + 1, Len(xml))
                source_len == saturating_sub(source_range.end_index, source_range.start_index)
                insertion_paragraph_count ==
                    IF source_range.start_index < target_range.end_index
                    THEN saturating_sub(target_range.end_index, source_len)
                    ELSE target_range.end_index
                found == insertion_index_after_paragraph_count(without_source, insertion_paragraph_count)
                insertion_index == IF found.some THEN found.value
                                   ELSE fallback_body_insertion_index(without_source)
            IN  IF source_start >= source_end \/ source_end > Len(xml) THEN unchanged("err")
                ELSE [result |-> "ok",
                      xml |-> SubSeq(without_source, 1, insertion_index) \o moved_fragment
                                \o SubSeq(without_source, insertion_index + 1, Len(without_source))]

NoMove == [source |-> 0, target |-> 0]

MoveIdle ==
    /\ mvXml = <<>>
    /\ mvBefore = <<>>
    /\ mvCall = NoMove
    /\ mvResult = "none"

MoveInit ==
    /\ mvXml \in MoveDocuments(MaxTags)
    /\ mvBefore = mvXml
    /\ mvCall = NoMove
    /\ mvResult = "none"

\* invoke_command "move_capture_heading" on the capture file; the orders are
\* those of paragraphs of the file, or one past the last.
MoveCaptureHeading ==
    /\ mvResult = "none"
    /\ \E source_heading_order, target_heading_order \in 1..(Len(paragraph_nodes(mvXml)) + 1) :
        LET moved == move_capture_heading(mvXml, source_heading_order, target_heading_order) IN
        /\ mvCall' = [source |-> source_heading_order, target |-> target_heading_order]
        /\ mvXml' = moved.xml
        /\ mvResult' = moved.result
    /\ UNCHANGED <<mvBefore, notMove>>

\* -------------------------------- docx_parse.rs: resolve_insert_after_order

MaxInsertParas == 4
MaxInsertLevel == 4

\* Option<i64>.
NoOrder == [some |-> FALSE, value |-> 0]
SomeOrder(value) == [some |-> TRUE, value |-> value]

\* The paragraphs of a capture file, by heading level (0 for body text).
InsertXml(max_paras, max_level) ==
    SeqsUpTo([detected_level : 0..max_level, author_line : {FALSE}, is_f8_cite : {FALSE}],
             max_paras)

\* The closure returns the order of the first paragraph of the range.
start_order(paragraphs, range) ==
    IF range.start_index < Len(paragraphs)
    THEN SomeOrder(paragraphs[range.start_index + 1].order)
    ELSE NoOrder

\* The closure end_order: the order of paragraphs[end_index - 1], saturating.
end_order(paragraphs, range) ==
    LET index == saturating_sub(range.end_index, 1) IN
    IF index < Len(paragraphs) THEN SomeOrder(paragraphs[index + 1].order) ELSE NoOrder

\* The positions in heading_ranges of the ranges with the property, for
\* iter().find (the least) and iter().rev().find (the greatest).
positions_where(heading_ranges, Test(_)) ==
    {position \in 1..Len(heading_ranges) : Test(heading_ranges[position])}

\* The loop over the candidates before the selected range: the last one
\* with a smaller level than the incoming one that reaches past the
\* selected start.
ancestor_match(heading_ranges, selected_range, incoming_level) ==
    positions_where(heading_ranges,
        LAMBDA candidate :
            /\ candidate.start_index < selected_range.start_index
            /\ candidate.level < incoming_level
            /\ candidate.end_index > selected_range.start_index)

\* The part of resolve_insert_after_order after the `if let Some(selected_range)`
\* block: no selection, or a selected order that no range has.
resolve_without_selection(paragraphs, heading_ranges, incoming) ==
    LET last_same_level ==
            positions_where(heading_ranges, LAMBDA range : range.level = incoming.value)
        last_parent_level ==
            positions_where(heading_ranges, LAMBDA range : range.level < incoming.value)
    IN  IF incoming.some /\ last_same_level # {}
        THEN end_order(paragraphs, heading_ranges[Max(last_same_level)])
        ELSE IF incoming.some /\ last_parent_level # {}
        THEN end_order(paragraphs, heading_ranges[Max(last_parent_level)])
        ELSE end_order(paragraphs, heading_ranges[Len(heading_ranges)])

resolve_insert_after_order(paragraphs, selected, incoming) ==
    LET heading_ranges == build_heading_ranges(paragraphs)
        found == positions_where(heading_ranges, LAMBDA range : range.order = selected.value)
    IN  IF heading_ranges = <<>> THEN NoOrder
        ELSE IF selected.some /\ found # {}
        THEN LET selected_range == heading_ranges[Min(found)]
                 ancestors == ancestor_match(heading_ranges, selected_range, incoming.value)
                 last_at_or_above ==
                    positions_where(heading_ranges, LAMBDA range : range.level <= incoming.value)
             IN  IF incoming.some /\ incoming.value < selected_range.level /\ ancestors # {}
                 THEN end_order(paragraphs, heading_ranges[Max(ancestors)])
                 ELSE IF incoming.some /\ incoming.value < selected_range.level
                         /\ last_at_or_above # {}
                 THEN end_order(paragraphs, heading_ranges[Max(last_at_or_above)])
                 ELSE end_order(paragraphs, selected_range)
        ELSE resolve_without_selection(paragraphs, heading_ranges, incoming)

InsertIdle ==
    /\ riParagraphs = <<>>
    /\ riSelected = NoOrder
    /\ riIncoming = NoOrder
    /\ riResult = NoOrder
    /\ riDone = FALSE

InsertInit ==
    /\ riParagraphs \in {parse_docx_paragraphs(xml) : xml \in InsertXml(MaxInsertParas, MaxInsertLevel)}
    /\ riSelected = NoOrder
    /\ riIncoming = NoOrder
    /\ riResult = NoOrder
    /\ riDone = FALSE

\* docx_capture.rs, append_capture_to_docx: resolve_insert_after_order with
\* the selection and the level of the request.
ResolveInsertAfterOrder ==
    /\ ~riDone
    /\ \E selected \in {NoOrder} \cup {SomeOrder(order) : order \in 1..(Len(riParagraphs) + 1)},
          incoming \in {NoOrder} \cup {SomeOrder(level) : level \in 1..MaxInsertLevel} :
        /\ riSelected' = selected
        /\ riIncoming' = incoming
        /\ riResult' = resolve_insert_after_order(riParagraphs, selected, incoming)
    /\ riDone' = TRUE
    /\ UNCHANGED <<riParagraphs, notInsert>>

\* ------------------------- util.rs, commands.rs: index-progress events

INDEX_PROGRESS_EMIT_INTERVAL_MS == 120
MaxTicks == 3
MaxProgressCalls == 1

\* The values now_ms() returns, in steps of half the emit interval. now_ms()
\* is SystemTime::now() since the epoch: the wall clock, read anew at each
\* call, which the system can set forward or back between two reads.
ClockReadings == {tick * (INDEX_PROGRESS_EMIT_INTERVAL_MS \div 2) : tick \in 0..MaxTicks}

\* emit_index_progress: an event is emitted at `now` unless the call is not
\* forced and `now` is less than the interval after the last emission.
emit_index_progress(events, started_at, phase, last_emitted_ms, force, now) ==
    IF ~force /\ now - last_emitted_ms < INDEX_PROGRESS_EMIT_INTERVAL_MS
    THEN [events |-> events, last_emitted_ms |-> last_emitted_ms]
    ELSE [events |-> Append(events, [phase |-> phase, elapsed_ms |-> now - started_at,
                                     at |-> now, force |-> force]),
          last_emitted_ms |-> now]

ProgressIdle ==
    /\ pgPc = "idle"
    /\ pgStartedAt = 0
    /\ pgLastEmit = 0
    /\ pgCalls = 0
    /\ pgEvents = <<>>

ProgressInit == ProgressIdle

\* A step of index_root that emits: the call of emit_index_progress with the
\* clock reading `now`, unless a `?` before it returned the error.
EmitStep(fails, next_pc, phase, force, now) ==
    IF fails
    THEN /\ pgPc' = "failed"
         /\ UNCHANGED <<pgLastEmit, pgEvents, pgCalls>>
    ELSE LET emitted == emit_index_progress(pgEvents, pgStartedAt, phase, pgLastEmit, force, now)
         IN  /\ pgPc' = next_pc
             /\ pgEvents' = emitted.events
             /\ pgLastEmit' = emitted.last_emitted_ms
             /\ pgCalls' = IF force THEN 0 ELSE pgCalls + 1

\* index_root up to its first emission: started_at = now_ms(), the root and
\* the database are opened, last_progress_emit_ms = 0, and the forced event
\* of the phase "discovering".
IndexRootStarts ==
    /\ pgPc = "idle"
    /\ \E started_at, now \in ClockReadings, fails \in BOOLEAN :
        /\ pgStartedAt' = started_at
        /\ IF fails
           THEN /\ pgPc' = "failed"
                /\ UNCHANGED <<pgLastEmit, pgEvents, pgCalls>>
           ELSE LET emitted == emit_index_progress(<<>>, started_at, "discovering", 0, TRUE, now)
                IN  /\ pgPc' = "discovering"
                    /\ pgEvents' = emitted.events
                    /\ pgLastEmit' = emitted.last_emitted_ms
                    /\ pgCalls' = 0
    /\ UNCHANGED notProgress

\* One entry of the walk: the file is compared with its row, then the
\* non-forced event of the phase "discovering".
DiscoverEntry ==
    /\ pgPc = "discovering"
    /\ pgCalls < MaxProgressCalls
    /\ \E now \in ClockReadings, fails \in BOOLEAN :
        EmitStep(fails, "discovering", "discovering", FALSE, now)
    /\ UNCHANGED <<pgStartedAt, notProgress>>

\* After the walk: the forced event of the phase "indexing", then the
\* transaction is begun.
StartIndexing ==
    /\ pgPc = "discovering"
    /\ \E now \in ClockReadings : EmitStep(FALSE, "indexing", "indexing", TRUE, now)
    /\ UNCHANGED <<pgStartedAt, notProgress>>

\* One candidate: its rows are written, then the non-forced event of the
\* phase "indexing".
IndexCandidate ==
    /\ pgPc = "indexing"
    /\ pgCalls < MaxProgressCalls
    /\ \E now \in ClockReadings, fails \in BOOLEAN :
        EmitStep(fails, "indexing", "indexing", FALSE, now)
    /\ UNCHANGED <<pgStartedAt, notProgress>>

\* After the candidates: the forced event of the phase "cleaning".
StartCleaning ==
    /\ pgPc = "indexing"
    /\ \E now \in ClockReadings : EmitStep(FALSE, "cleaning", "cleaning", TRUE, now)
    /\ UNCHANGED <<pgStartedAt, notProgress>>

\* One stale entry: its row is deleted, then the non-forced event of the
\* phase "cleaning".
RemoveStaleEntry ==
    /\ pgPc = "cleaning"
    /\ pgCalls < MaxProgressCalls
    /\ \E now \in ClockReadings, fails \in BOOLEAN :
        EmitStep(fails, "cleaning", "cleaning", FALSE, now)
    /\ UNCHANGED <<pgStartedAt, notProgress>>

\* The end of index_root: the commit, the marker and the lexical rebuild,
\* then the forced event of the phase "complete" and the return of the stats.
CompleteIndexRoot ==
    /\ pgPc = "cleaning"
    /\ \E now \in ClockReadings, fails \in BOOLEAN :
        EmitStep(fails, "done", "complete", TRUE, now)
    /\ UNCHANGED <<pgStartedAt, notProgress>>

\* ------------------ query_engine.rs, commands.rs: the cache and the index

\* The indexed files, by id, and the queries of the model with the files
\* each one matches.
SearchedFiles == {1, 2, 3}
SearchedQueries == {"alpha", "beta"}
matching_files(query) == IF query = "alpha" THEN {1, 2} ELSE {2, 3}

\* lexical::search(app, query, root_id, limit, false) on the index as it is:
\* the matching files the index holds.
lexical_search_results(index, query) == index \cap matching_files(query)

NoSearch == [called |-> FALSE, query |-> "", ok |-> TRUE, results |-> {}, from_cache |-> FALSE,
             fresh |-> {}, after |-> "none"]

CachedIdle ==
    /\ scIndex = {}
    /\ scOrder = <<>>
    /\ scEntries = <<>>
    /\ scLastOp = "none"
    /\ scLast = NoSearch

\* A process that has just started: an empty cache over the index left on
\* disk by the runs before.
CachedInit ==
    /\ scIndex \in SUBSET SearchedFiles
    /\ scOrder = <<>>
    /\ scEntries = <<>>
    /\ scLastOp = "none"
    /\ scLast = NoSearch

\* search_lexical: the cached results of the key when the cache holds them
\* and they have not expired, else the results of lexical::search, which are
\* put in the cache. `fresh` keeps what the index yields at the call.
SearchLexical ==
    \E query \in SearchedQueries, expired, fails \in BOOLEAN :
        LET key == query
            fresh == lexical_search_results(scIndex, query)
            call == [called |-> TRUE, query |-> query, fresh |-> fresh, after |-> scLastOp]
        IN
        /\ IF QueryCache_get(DOMAIN scEntries, key, expired)
           THEN /\ scLast' = call @@ [ok |-> TRUE, results |-> scEntries[key], from_cache |-> TRUE]
                /\ UNCHANGED <<scOrder, scEntries>>
           ELSE IF fails
           THEN /\ scLast' = call @@ [ok |-> FALSE, results |-> {}, from_cache |-> FALSE]
                /\ UNCHANGED <<scOrder, scEntries>>
           ELSE LET cache == QueryCache_put(scOrder, DOMAIN scEntries, key) IN
                /\ scLast' = call @@ [ok |-> TRUE, results |-> fresh, from_cache |-> FALSE]
                /\ scOrder' = cache.order
                /\ scEntries' = [cached \in cache.entries |->
                                    IF cached = key THEN fresh ELSE scEntries[cached]]
        /\ UNCHANGED <<scIndex, scLastOp, notCached>>

\* The end of a successful index_root: the commit, the marker, the rebuild of
\* the lexical index from the store, the event "complete" and the trigger of
\* the semantic rebuild. The index holds the files of the store as indexed.
IndexRootCompletes ==
    /\ \E indexed \in SUBSET SearchedFiles :
        /\ indexed # {}
        /\ scIndex' = indexed
    /\ scLastOp' = "index_root"
    /\ UNCHANGED <<scOrder, scEntries, scLast, notCached>>

\* A successful remove_root: the root row is deleted, with its files, and
\* the lexical index is rebuilt from the store.
RemoveRootCompletes ==
    /\ \E removed \in SUBSET SearchedFiles :
        /\ removed # {}
        /\ scIndex' = scIndex \ removed
    /\ scLastOp' = "remove_root"
    /\ UNCHANGED <<scOrder, scEntries, scLast, notCached>>

\* ------------------ commands.rs, db.rs: index_root runs that overlap

MaxRuns == 2
MaxHash == 2
MaxTreeChanges == 2

\* The runs, numbered in the order they start, and the documents that can
\* lie under the root. A document is absent (0) or has a file hash.
OverlapRuns == 1..MaxRuns
OverlapPaths == {"f.docx", "g.docx"}
OverlapTrees == [OverlapPaths -> 0..MaxHash]

\* path_display(canonical_root.join(relative_path)).
absolute_path_of(relative) == <<RootPath, relative>>

\* The rows index_root writes for a document: the row of files and, every
\* document of the model having one heading, the row of headings.
FileRow(id, relative, file_hash) ==
    [id |-> id, relative_path |-> relative,
     absolute_path |-> absolute_path_of(relative), file_hash |-> file_hash]
HeadingRow(file_id, relative) == [file_id |-> file_id, relative_path |-> relative]

\* The store a run that indexed `tree` alone leaves: rowids in the order of
\* the walk, here the order f.docx, g.docx.
indexed_files(tree) ==
    LET first == IF tree["f.docx"] # 0 THEN {FileRow(1, "f.docx", tree["f.docx"])} ELSE {}
    IN  first \cup IF tree["g.docx"] # 0
                   THEN {FileRow(Cardinality(first) + 1, "g.docx", tree["g.docx"])} ELSE {}

IdleRun == [pc |-> "idle", existing_files |-> {}, candidates |-> {}, stale_entries |-> {}]

OverlapIdle ==
    /\ ovTree = [path \in OverlapPaths |-> 0]
    /\ ovFiles = {}
    /\ ovHeadings = {}
    /\ ovRun = [run \in OverlapRuns |-> IdleRun]
    /\ ovChanges = 0

\* The store as an earlier run left it, and the documents as they are now.
OverlapInit ==
    /\ ovTree \in OverlapTrees
    /\ \E indexed \in OverlapTrees :
        /\ ovFiles = indexed_files(indexed)
        /\ ovHeadings = {HeadingRow(row.id, row.relative_path) : row \in indexed_files(indexed)}
    /\ ovRun = [run \in OverlapRuns |-> IdleRun]
    /\ ovChanges = 0

\* index_root up to load_existing_files: the rows of files of the root are
\* read on the run's connection, before its transaction.
LoadExistingFiles(run) ==
    /\ ovRun[run].pc = "idle"
    /\ IF run = 1 THEN TRUE ELSE ovRun[run - 1].pc # "idle"
    /\ ovRun' = [ovRun EXCEPT ![run] =
            [pc |-> "loaded",
             existing_files |-> {[id |-> row.id, relative_path |-> row.relative_path,
                                  file_hash |-> row.file_hash] : row \in ovFiles},
             candidates |-> {}, stale_entries |-> {}]]
    /\ UNCHANGED <<ovTree, ovFiles, ovHeadings, ovChanges, notOverlap>>

\* The walk: a document is a candidate when existing_files has no row of its
\* path or a row with another hash; the rows of existing_files whose path
\* the walk did not see are the stale entries.
WalkRoot(run) ==
    /\ ovRun[run].pc = "loaded"
    /\ LET seen == {path \in OverlapPaths : ovTree[path] # 0}
           known(path) == {row \in ovRun[run].existing_files : row.relative_path = path}
       IN  ovRun' = [ovRun EXCEPT ![run] =
                [pc |-> "walked", existing_files |-> @.existing_files,
                 candidates |->
                    {[relative_path |-> path, file_hash |-> ovTree[path]] :
                        path \in {p \in seen : \A row \in known(p) : row.file_hash # ovTree[p]}},
                 stale_entries |-> {row \in @.existing_files : row.relative_path \notin seen}]]
    /\ UNCHANGED <<ovTree, ovFiles, ovHeadings, ovChanges, notOverlap>>

\* The statements of the transaction for one candidate: UPDATE files ...
\* WHERE id = existing.id when existing_files has the path, else INSERT INTO
\* files, which UNIQUE(root_id, relative_path) can refuse; then DELETE FROM
\* headings WHERE file_id and INSERT INTO headings, which the foreign key on
\* files(id) can refuse.
write_candidate(store, existing_files, candidate) ==
    LET existing == {row \in existing_files : row.relative_path = candidate.relative_path}
        taken == \E row \in store.files : row.relative_path = candidate.relative_path
        file_id == IF existing # {} THEN (CHOOSE row \in existing : TRUE).id
                   ELSE next_rowid(store.files)
        files ==
            IF existing # {}
            THEN {IF row.id = file_id
                  THEN [row EXCEPT !.absolute_path = absolute_path_of(candidate.relative_path),
                                   !.file_hash = candidate.file_hash]
                  ELSE row : row \in store.files}
            ELSE store.files \cup {FileRow(file_id, candidate.relative_path, candidate.file_hash)}
    IN  IF ~store.ok \/ (existing = {} /\ taken) \/ file_id \notin {row.id : row \in files}
        THEN [store EXCEPT !.ok = FALSE]
        ELSE [ok |-> TRUE, files |-> files,
              headings |-> {row \in store.headings : row.file_id # file_id}
                            \cup {HeadingRow(file_id, candidate.relative_path)}]

RECURSIVE write_parsed_candidates(_, _, _)
write_parsed_candidates(store, existing_files, order) ==
    IF order = <<>> THEN store
    ELSE write_parsed_candidates(write_candidate(store, existing_files, Head(order)),
                                 existing_files, Tail(order))

\* DELETE FROM files WHERE id = ?1 for each stale entry, with the ON DELETE
\* CASCADE of headings.
delete_stale_entries(store, stale) ==
    LET ids == {row.id : row \in stale} IN
    [store EXCEPT !.files = {row \in @ : row.id \notin ids},
                  !.headings = {row \in @ : row.file_id \notin ids}]

\* The transaction of a run, from its first statement, which takes the write
\* lock of the database, to commit(): no other connection writes meanwhile
\* or sees its rows before the commit. An error of a statement, or of the
\* lock (`busy`), drops the transaction, which rolls back.
RunTransaction(run) ==
    /\ ovRun[run].pc = "walked"
    /\ \E order \in Orderings(ovRun[run].candidates), busy \in BOOLEAN :
        LET written == write_parsed_candidates(
                            [ok |-> ~busy, files |-> ovFiles, headings |-> ovHeadings],
                            ovRun[run].existing_files, order)
            cleaned == delete_stale_entries(written, ovRun[run].stale_entries)
        IN  /\ ovFiles' = end_transaction(ovFiles, cleaned.files, cleaned.ok)
            /\ ovHeadings' = end_transaction(ovHeadings, cleaned.headings, cleaned.ok)
            /\ ovRun' = [ovRun EXCEPT ![run].pc = IF cleaned.ok THEN "committed" ELSE "failed"]
    /\ UNCHANGED <<ovTree, ovChanges, notOverlap>>

\* A document under the root is written, created or deleted.
ChangeDocument ==
    /\ ovChanges < MaxTreeChanges
    /\ \E path \in OverlapPaths, file_hash \in 0..MaxHash :
        /\ ovTree[path] # file_hash
        /\ ovTree' = [ovTree EXCEPT ![path] = file_hash]
    /\ ovChanges' = ovChanges + 1
    /\ UNCHANGED <<ovFiles, ovHeadings, ovRun, notOverlap>>

\* ------------------ lexical.rs: the three tiers of search

MIN_FETCH_MULTIPLIER == 5
MIN_FETCH_FLOOR == 80
MAX_FETCH_LIMIT == 1800

MaxTierEntries == 2
MaxChunks == 1200

\* usize::clamp.
clamp(value, low, high) == IF value < low THEN low ELSE IF value > high THEN high ELSE value

target_limit_of(limit) == clamp(limit, 10, 400)
fetch_limit_of(target_limit) ==
    clamp(target_limit * MIN_FETCH_MULTIPLIER, MIN_FETCH_FLOOR, MAX_FETCH_LIMIT)

\* The documents of the index: one per file, one per heading and one per
\* chunk.  A file document has no heading_order (0 here, as unwrap_or(0)
\* reads it); a chunk document carries the order and text of its heading.
LexicalDocuments ==
    {[kind |-> "file", file_id |-> file_id, heading_order |-> 0] : file_id \in {1, 2}}
    \cup {[kind |-> of_kind, file_id |-> 1, heading_order |-> 1] : of_kind \in {"heading", "chunk"}}

\* What TopDocs yields for one tier, best first, written as runs: `count`
\* documents in a row that have the same kind, file and heading.  Only the
\* chunks of one heading come in runs longer than one, and a document comes
\* once in a list.
TierEntries(fetch_limit) ==
    {[document |-> document, count |-> 1] : document \in LexicalDocuments}
    \cup (IF MaxChunks <= fetch_limit
          THEN {[document |-> [kind |-> "chunk", file_id |-> 1, heading_order |-> 1],
                 count |-> MaxChunks]}
          ELSE {})

RECURSIVE documents_in(_)
documents_in(entries) ==
    IF entries = <<>> THEN 0 ELSE Head(entries).count + documents_in(Tail(entries))

TierLists(fetch_limit) ==
    {entries \in SeqsUpTo(TierEntries(fetch_limit), MaxTierEntries) :
        /\ documents_in(entries) <= fetch_limit
        /\ \A first, second \in 1..Len(entries) :
            (first # second /\ entries[first].document = entries[second].document)
                => entries[first].document.kind = "chunk"}

NoHit == [some |-> FALSE]

\* build_hit: None for a document that is not a file when only file names
\* are searched; the kind "chunk" is mapped to "heading".
build_hit(document, score, file_name_only) ==
    IF file_name_only /\ document.kind # "file" THEN NoHit
    ELSE [some |-> TRUE,
          hit |-> [kind |-> IF document.kind = "file" THEN "file" ELSE "heading",
                   file_id |-> document.file_id,
                   heading_order |-> document.heading_order,
                   score |-> score]]

\* dedupe_key: heading_text and relative_path are those of the heading and
\* of the file.
dedupe_key(hit) == <<hit.kind, hit.file_id, hit.heading_order>>

NoResults == [results |-> <<>>, seen |-> {}, found |-> <<>>]

RECURSIVE push_tier_documents(_, _, _, _, _, _, _)
\* The loop over tier_documents.into_iter().enumerate(), one run at a time:
\* the first document of a run is at `rank`; the documents after it in the
\* run have its dedupe key, so none of them is pushed.  `found` records, for
\* each hit pushed, the tier and the rank it was found at.
push_tier_documents(state, entries, rank, tier, score_base, target_limit, file_name_only) ==
    IF entries = <<>> THEN state
    ELSE LET entry == Head(entries)
             built == build_hit(entry.document, score_base + rank, file_name_only)
             pushed ==
                IF Len(state.results) >= target_limit THEN state
                ELSE IF ~built.some THEN state
                ELSE IF dedupe_key(built.hit) \in state.seen THEN state
                ELSE [results |-> Append(state.results, built.hit),
                      seen |-> state.seen \cup {dedupe_key(built.hit)},
                      found |-> Append(state.found, [tier |-> tier, rank |-> rank])]
         IN  push_tier_documents(pushed, Tail(entries), rank + entry.count, tier,
                                 score_base, target_limit, file_name_only)

\* The tiers vector: the conjunctive query, the prefix query and, unless
\* only file names are searched, the n-gram query (ngrams_for_query of a
\* normalized query that is not empty is not empty).
lexical_tiers(index, file_name_only) ==
    <<[documents |-> index.lexical, score_base |-> 1000],
      [documents |-> index.prefix, score_base |-> 2000]>>
    \o (IF file_name_only THEN <<>>
        ELSE <<[documents |-> index.ngram, score_base |-> 3000]>>)

RECURSIVE run_tiers(_, _, _, _, _)
run_tiers(state, tiers, tier, target_limit, file_name_only) ==
    IF tier > Len(tiers) THEN state
    ELSE LET after == push_tier_documents(state, tiers[tier].documents, 0, tier,
                                          tiers[tier].score_base, target_limit,
                                          file_name_only)
         IN  IF Len(after.results) >= target_limit THEN after
             ELSE run_tiers(after, tiers, tier + 1, target_limit, file_name_only)

\* search(app, query, root_id, limit, file_name_only) over an index that
\* yields `index` for the tier queries.
lexical_search(query, limit, file_name_only, index) ==
    IF normalize_for_search(query) = <<>> THEN NoResults
    ELSE run_tiers(NoResults, lexical_tiers(index, file_name_only), 1,
                   target_limit_of(limit), file_name_only)

TierQueries == {<<>>, <<",">>, <<"a">>}
TierLimits == {5, 200, 400}
NoTierIndex == [lexical |-> <<>>, prefix |-> <<>>, ngram |-> <<>>]
NotSearched == [called |-> FALSE, results |-> <<>>, found |-> <<>>]

TiersIdle ==
    /\ ltQuery = <<>>
    /\ ltLimit = 0
    /\ ltFileNameOnly = FALSE
    /\ ltIndex = NoTierIndex
    /\ ltOut = NotSearched

\* A call of search and an index: what the index yields for each tier is
\* at most fetch_limit documents.
TiersInit ==
    /\ ltQuery \in TierQueries
    /\ ltLimit \in TierLimits
    /\ ltFileNameOnly \in BOOLEAN
    /\ \E lexical, prefix, ngram \in TierLists(fetch_limit_of(target_limit_of(ltLimit))) :
        ltIndex = [lexical |-> lexical, prefix |-> prefix, ngram |-> ngram]
    /\ ltOut = NotSearched

LexicalSearch ==
    /\ ~ltOut.called
    /\ LET out == lexical_search(ltQuery, ltLimit, ltFileNameOnly, ltIndex) IN
        ltOut' = [called |-> TRUE, results |-> out.results, found |-> out.found]
    /\ UNCHANGED <<ltQuery, ltLimit, ltFileNameOnly, ltIndex, notTiers>>


\* ------------------ lexical.rs, semantic.rs: the runtimes of the process

MaxThreads == 2
MaxRuntimeCalls == 2

RuntimeThreads == 1..MaxThreads
Runtimes == {"lexical", "semantic"}

EmptyCell == [set |-> FALSE, instance |-> 0]
IdleThread == [pc |-> "idle", runtime |-> "lexical", built |-> 0, calls |-> 0]

RuntimeIdle ==
    /\ rtCell = [runtime \in Runtimes |-> EmptyCell]
    /\ rtBuilt = [runtime \in Runtimes |-> 0]
    /\ rtObtained = [runtime \in Runtimes |-> {}]
    /\ rtThread = [thread \in RuntimeThreads |-> IdleThread]

\* A process that has just started: both cells empty.
RuntimeInit == RuntimeIdle

\* OnceLock::set: stores the value if the cell is empty, and drops it
\* otherwise.
OnceLock_set(cell, instance) ==
    IF cell.set THEN cell ELSE [set |-> TRUE, instance |-> instance]

\* A thread calls lexical_runtime or load_semantic_runtime; the call begins
\* with RUNTIME.get(), and returns the instance if the cell holds one.
CallRuntime(thread, runtime) ==
    /\ rtThread[thread].pc \in {"idle", "returned", "failed"}
    /\ rtThread[thread].calls < MaxRuntimeCalls
    /\ IF rtCell[runtime].set
       THEN /\ rtThread' = [rtThread EXCEPT ![thread] =
                    [pc |-> "returned", runtime |-> runtime, built |-> 0,
                     calls |-> @.calls + 1]]
            /\ rtObtained' = [rtObtained EXCEPT ![runtime] =
                    @ \cup {rtCell[runtime].instance}]
       ELSE /\ rtThread' = [rtThread EXCEPT ![thread] =
                    [pc |-> "initializing", runtime |-> runtime, built |-> 0,
                     calls |-> @.calls + 1]]
            /\ UNCHANGED rtObtained
    /\ UNCHANGED <<rtCell, rtBuilt, notRuntime>>

\* init_runtime(app)? or build_semantic_runtime(app)?: a new instance, or an
\* error the call returns with.
RunInitializer(thread, succeeds) ==
    /\ rtThread[thread].pc = "initializing"
    /\ IF succeeds
       THEN /\ rtBuilt' = [rtBuilt EXCEPT ![rtThread[thread].runtime] = @ + 1]
            /\ rtThread' = [rtThread EXCEPT ![thread] =
                    [@ EXCEPT !.pc = "built",
                              !.built = rtBuilt[rtThread[thread].runtime] + 1]]
       ELSE /\ rtThread' = [rtThread EXCEPT ![thread] = [@ EXCEPT !.pc = "failed"]]
            /\ UNCHANGED rtBuilt
    /\ UNCHANGED <<rtCell, rtObtained, notRuntime>>

\* let _ = RUNTIME.set(Mutex::new(runtime)).
SetCell(thread) ==
    /\ rtThread[thread].pc = "built"
    /\ rtCell' = [rtCell EXCEPT ![rtThread[thread].runtime] =
            OnceLock_set(@, rtThread[thread].built)]
    /\ rtThread' = [rtThread EXCEPT ![thread] = [@ EXCEPT !.pc = "stored"]]
    /\ UNCHANGED <<rtBuilt, rtObtained, notRuntime>>

\* RUNTIME.get().ok_or_else(..): the cell holds an instance by now.
GetCell(thread) ==
    /\ rtThread[thread].pc = "stored"
    /\ rtObtained' = [rtObtained EXCEPT ![rtThread[thread].runtime] =
            @ \cup {rtCell[rtThread[thread].runtime].instance}]
    /\ rtThread' = [rtThread EXCEPT ![thread] = [@ EXCEPT !.pc = "returned"]]
    /\ UNCHANGED <<rtCell, rtBuilt, notRuntime>>


\* ------------------------------------------------------- specifications

InitNorm ==
    /\ NormInit
    /\ PathIdle /\ HeadIdle /\ RewriteIdle /\ FuseIdle /\ SearchIdle /\ IndexIdle
    /\ MergeIdle /\ ChunkIdle /\ RebuildIdle /\ CacheIdle /\ LayoutIdle /\ AuthorsIdle
    /\ MoveIdle /\ InsertIdle /\ ProgressIdle /\ CachedIdle /\ OverlapIdle /\ TiersIdle
    /\ RuntimeIdle
NextNorm == Normalize \/ NormalizeAgain
SpecNorm == InitNorm /\ [][NextNorm]_vars

InitPath ==
    /\ PathInit
    /\ NormIdle /\ HeadIdle /\ RewriteIdle /\ FuseIdle /\ SearchIdle /\ IndexIdle
    /\ MergeIdle /\ ChunkIdle /\ RebuildIdle /\ CacheIdle /\ LayoutIdle /\ AuthorsIdle
    /\ MoveIdle /\ InsertIdle /\ ProgressIdle /\ CachedIdle /\ OverlapIdle /\ TiersIdle
    /\ RuntimeIdle
NextPath == NormalizeTarget
SpecPath == InitPath /\ [][NextPath]_vars

InitHead ==
    /\ HeadInit
    /\ NormIdle /\ PathIdle /\ RewriteIdle /\ FuseIdle /\ SearchIdle /\ IndexIdle
    /\ MergeIdle /\ ChunkIdle /\ RebuildIdle /\ CacheIdle /\ LayoutIdle /\ AuthorsIdle
    /\ MoveIdle /\ InsertIdle /\ ProgressIdle /\ CachedIdle /\ OverlapIdle /\ TiersIdle
    /\ RuntimeIdle
NextHead == BuildHeadingRanges
SpecHead == InitHead /\ [][NextHead]_vars

InitRewrite ==
    /\ RewriteInit
    /\ NormIdle /\ PathIdle /\ HeadIdle /\ FuseIdle /\ SearchIdle /\ IndexIdle /\ MergeIdle
    /\ ChunkIdle /\ RebuildIdle /\ CacheIdle /\ LayoutIdle /\ AuthorsIdle /\ MoveIdle
    /\ InsertIdle /\ ProgressIdle /\ CachedIdle /\ OverlapIdle /\ TiersIdle /\ RuntimeIdle
NextRewrite ==
    \/ OpenArchive \/ CreateTemp \/ CopyEntry \/ CopyDone \/ AddReplacement
    \/ FinishArchive \/ RenameTemp \/ RemoveOriginal \/ RenameAgain
SpecRewrite == InitRewrite /\ [][NextRewrite]_vars

InitFuse ==
    /\ FuseInit
    /\ NormIdle /\ PathIdle /\ HeadIdle /\ RewriteIdle /\ SearchIdle /\ IndexIdle
    /\ MergeIdle /\ ChunkIdle /\ RebuildIdle /\ CacheIdle /\ LayoutIdle /\ AuthorsIdle
    /\ MoveIdle /\ InsertIdle /\ ProgressIdle /\ CachedIdle /\ OverlapIdle /\ TiersIdle
    /\ RuntimeIdle
NextFuse == FuseRrf
SpecFuse == InitFuse /\ [][NextFuse]_vars

InitSearch ==
    /\ SearchInit
    /\ NormIdle /\ PathIdle /\ HeadIdle /\ RewriteIdle /\ FuseIdle /\ IndexIdle
    /\ MergeIdle /\ ChunkIdle /\ RebuildIdle /\ CacheIdle /\ LayoutIdle /\ AuthorsIdle
    /\ MoveIdle /\ InsertIdle /\ ProgressIdle /\ CachedIdle /\ OverlapIdle /\ TiersIdle
    /\ RuntimeIdle
NextSearch == SearchHybrid
SpecSearch == InitSearch /\ [][NextSearch]_vars

InitIndex ==
    /\ IndexInit
    /\ NormIdle /\ PathIdle /\ HeadIdle /\ RewriteIdle /\ FuseIdle /\ SearchIdle
    /\ MergeIdle /\ ChunkIdle /\ RebuildIdle /\ CacheIdle /\ LayoutIdle /\ AuthorsIdle
    /\ MoveIdle /\ InsertIdle /\ ProgressIdle /\ CachedIdle /\ OverlapIdle /\ TiersIdle
    /\ RuntimeIdle
NextIndex ==
    \/ WriteFile \/ DeleteFile \/ AddRoot \/ IndexRoot \/ InsertCapture \/ InvokeRemoveRoot
SpecIndex == InitIndex /\ [][NextIndex]_vars

InitMerge ==
    /\ MergeInit
    /\ NormIdle /\ PathIdle /\ HeadIdle /\ RewriteIdle /\ FuseIdle /\ SearchIdle
    /\ IndexIdle /\ ChunkIdle /\ RebuildIdle /\ CacheIdle /\ LayoutIdle /\ AuthorsIdle
    /\ MoveIdle /\ InsertIdle /\ ProgressIdle /\ CachedIdle /\ OverlapIdle /\ TiersIdle
    /\ RuntimeIdle
NextMerge == AppendCapture
SpecMerge == InitMerge /\ [][NextMerge]_vars

InitChunk ==
    /\ ChunkInit
    /\ NormIdle /\ PathIdle /\ HeadIdle /\ RewriteIdle /\ FuseIdle /\ SearchIdle
    /\ IndexIdle /\ MergeIdle /\ RebuildIdle /\ CacheIdle /\ LayoutIdle /\ AuthorsIdle
    /\ MoveIdle /\ InsertIdle /\ ProgressIdle /\ CachedIdle /\ OverlapIdle /\ TiersIdle
    /\ RuntimeIdle
NextChunk == SplitTextIntoChunks
SpecChunk == InitChunk /\ [][NextChunk]_vars

InitRebuild ==
    /\ RebuildInit
    /\ NormIdle /\ PathIdle /\ HeadIdle /\ RewriteIdle /\ FuseIdle /\ SearchIdle
    /\ IndexIdle /\ MergeIdle /\ ChunkIdle /\ CacheIdle /\ LayoutIdle /\ AuthorsIdle
    /\ MoveIdle /\ InsertIdle /\ ProgressIdle /\ CachedIdle /\ OverlapIdle /\ TiersIdle
    /\ RuntimeIdle
NextRebuild ==
    \E caller \in Callers :
        \/ Invoke(caller) \/ ShouldRebuild(caller) \/ CompareExchange(caller)
        \/ Return(caller) \/ RebuildStarts(caller) \/ RebuildReturns(caller)
        \/ StoreFlag(caller)
SpecRebuild == InitRebuild /\ [][NextRebuild]_vars

\* The rebuilds with roots being removed as well as indexed.
NextRebuildRoots ==
    \/ NextRebuild
    \/ \E caller \in Callers : RemoveIndexedRoot(caller)
SpecRebuildRoots == InitRebuild /\ [][NextRebuildRoots]_vars

InitCache ==
    /\ CacheInit
    /\ NormIdle /\ PathIdle /\ HeadIdle /\ RewriteIdle /\ FuseIdle /\ SearchIdle
    /\ IndexIdle /\ MergeIdle /\ ChunkIdle /\ RebuildIdle /\ LayoutIdle /\ AuthorsIdle
    /\ MoveIdle /\ InsertIdle /\ ProgressIdle /\ CachedIdle /\ OverlapIdle /\ TiersIdle
    /\ RuntimeIdle
NextCache ==
    \/ CacheGet \/ CachePut
SpecCache == InitCache /\ [][NextCache]_vars

InitLayout ==
    /\ LayoutInit
    /\ NormIdle /\ PathIdle /\ HeadIdle /\ RewriteIdle /\ FuseIdle /\ SearchIdle
    /\ IndexIdle /\ MergeIdle /\ ChunkIdle /\ RebuildIdle /\ CacheIdle /\ AuthorsIdle
    /\ MoveIdle /\ InsertIdle /\ ProgressIdle /\ CachedIdle /\ OverlapIdle /\ TiersIdle
    /\ RuntimeIdle
NextLayout ==
    \/ OpenDatabase
SpecLayout == InitLayout /\ [][NextLayout]_vars

InitAuthors ==
    /\ AuthorsInit
    /\ NormIdle /\ PathIdle /\ HeadIdle /\ RewriteIdle /\ FuseIdle /\ SearchIdle
    /\ IndexIdle /\ MergeIdle /\ ChunkIdle /\ RebuildIdle /\ CacheIdle /\ LayoutIdle
    /\ MoveIdle /\ InsertIdle /\ ProgressIdle /\ CachedIdle /\ OverlapIdle /\ TiersIdle
    /\ RuntimeIdle
NextAuthors ==
    \/ ExtractAuthorCandidates
SpecAuthors == InitAuthors /\ [][NextAuthors]_vars

InitMove ==
    /\ MoveInit
    /\ NormIdle /\ PathIdle /\ HeadIdle /\ RewriteIdle /\ FuseIdle /\ SearchIdle
    /\ IndexIdle /\ MergeIdle /\ ChunkIdle /\ RebuildIdle /\ CacheIdle /\ LayoutIdle
    /\ AuthorsIdle /\ InsertIdle /\ ProgressIdle /\ CachedIdle /\ OverlapIdle /\ TiersIdle
    /\ RuntimeIdle
NextMove ==
    \/ MoveCaptureHeading
SpecMove == InitMove /\ [][NextMove]_vars

InitInsert ==
    /\ InsertInit
    /\ NormIdle /\ PathIdle /\ HeadIdle /\ RewriteIdle /\ FuseIdle /\ SearchIdle
    /\ IndexIdle /\ MergeIdle /\ ChunkIdle /\ RebuildIdle /\ CacheIdle /\ LayoutIdle
    /\ AuthorsIdle /\ MoveIdle /\ ProgressIdle /\ CachedIdle /\ OverlapIdle /\ TiersIdle
    /\ RuntimeIdle
NextInsert ==
    \/ ResolveInsertAfterOrder
SpecInsert == InitInsert /\ [][NextInsert]_vars

InitProgress ==
    /\ ProgressInit
    /\ NormIdle /\ PathIdle /\ HeadIdle /\ RewriteIdle /\ FuseIdle /\ SearchIdle
    /\ IndexIdle /\ MergeIdle /\ ChunkIdle /\ RebuildIdle /\ CacheIdle /\ LayoutIdle
    /\ AuthorsIdle /\ MoveIdle /\ InsertIdle /\ CachedIdle /\ OverlapIdle /\ TiersIdle
    /\ RuntimeIdle
NextProgress ==
    \/ IndexRootStarts \/ DiscoverEntry \/ StartIndexing \/ IndexCandidate \/ StartCleaning
    \/ RemoveStaleEntry \/ CompleteIndexRoot
SpecProgress == InitProgress /\ [][NextProgress]_vars

InitCached ==
    /\ CachedInit
    /\ NormIdle /\ PathIdle /\ HeadIdle /\ RewriteIdle /\ FuseIdle /\ SearchIdle
    /\ IndexIdle /\ MergeIdle /\ ChunkIdle /\ RebuildIdle /\ CacheIdle /\ LayoutIdle
    /\ AuthorsIdle /\ MoveIdle /\ InsertIdle /\ ProgressIdle /\ OverlapIdle /\ TiersIdle
    /\ RuntimeIdle
NextCached ==
    \/ SearchLexical \/ IndexRootCompletes \/ RemoveRootCompletes
SpecCached == InitCached /\ [][NextCached]_vars

InitOverlap ==
    /\ OverlapInit
    /\ NormIdle /\ PathIdle /\ HeadIdle /\ RewriteIdle /\ FuseIdle /\ SearchIdle
    /\ IndexIdle /\ MergeIdle /\ ChunkIdle /\ RebuildIdle /\ CacheIdle /\ LayoutIdle
    /\ AuthorsIdle /\ MoveIdle /\ InsertIdle /\ ProgressIdle /\ CachedIdle /\ TiersIdle
    /\ RuntimeIdle
NextOverlap ==
    \/ \E run \in OverlapRuns : LoadExistingFiles(run)
    \/ \E run \in OverlapRuns : WalkRoot(run)
    \/ \E run \in OverlapRuns : RunTransaction(run)
    \/ ChangeDocument
SpecOverlap == InitOverlap /\ [][NextOverlap]_vars

InitTiers ==
    /\ TiersInit
    /\ NormIdle /\ PathIdle /\ HeadIdle /\ RewriteIdle /\ FuseIdle /\ SearchIdle
    /\ IndexIdle /\ MergeIdle /\ ChunkIdle /\ RebuildIdle /\ CacheIdle /\ LayoutIdle
    /\ AuthorsIdle /\ MoveIdle /\ InsertIdle /\ ProgressIdle /\ CachedIdle /\ OverlapIdle
    /\ RuntimeIdle
NextTiers ==
    \/ LexicalSearch
SpecTiers == InitTiers /\ [][NextTiers]_vars

InitRuntime ==
    /\ RuntimeInit
    /\ NormIdle /\ PathIdle /\ HeadIdle /\ RewriteIdle /\ FuseIdle /\ SearchIdle
    /\ IndexIdle /\ MergeIdle /\ ChunkIdle /\ RebuildIdle /\ CacheIdle /\ LayoutIdle
    /\ AuthorsIdle /\ MoveIdle /\ InsertIdle /\ ProgressIdle /\ CachedIdle /\ OverlapIdle
    /\ TiersIdle
NextRuntime ==
    \/ \E thread \in RuntimeThreads, runtime \in Runtimes : CallRuntime(thread, runtime)
    \/ \E thread \in RuntimeThreads, succeeds \in BOOLEAN : RunInitializer(thread, succeeds)
    \/ \E thread \in RuntimeThreads : SetCell(thread)
    \/ \E thread \in RuntimeThreads : GetCell(thread)
SpecRuntime == InitRuntime /\ [][NextRuntime]_vars

\* The async runtime runs a spawned task to its end.
FairRebuild ==
    \A caller \in Callers :
        /\ WF_vars(RebuildStarts(caller))
        /\ WF_vars(RebuildReturns(caller))
        /\ WF_vars(StoreFlag(caller))
SpecRebuildLive == SpecRebuild /\ FairRebuild

\* ------------------------------------------------------------- claims

\* lowercase ASCII/alphanumeric output: every char of a normalized string is
\* alphanumeric or the single space.
NoPunctuation(s) == \A i \in 1..Len(s) : is_alphanumeric(s[i]) \/ s[i] = " "
NoDoubleSpace(s) == \A i \in 1..(Len(s) - 1) : ~(s[i] = " " /\ s[i + 1] = " ")

\* C5: for every string x, normalize_for_search(normalize_for_search(x)) =
\* normalize_for_search(x), and the result holds no punctuation and no two
\* consecutive spaces.
C5_NormalizerIdempotent ==
    /\ nsCalls >= 1 => NoPunctuation(nsOut) /\ NoDoubleSpace(nsOut)
    /\ nsCalls = 2 => nsOut2 = nsOut

IsRelative(path) == ~path.absolute
NoParentDir(path) == \A i \in 1..Len(path.comps) : path.comps[i] # ".."
EndsWithDocx(path) ==
    /\ path.comps # <<>>
    /\ is_docx_extension(extension(path.comps[Len(path.comps)]))

\* C3: for every input, normalize_capture_target_path returns an error or a
\* path that is relative, has no ".." component and ends with .docx; a
\* missing or blank input yields BlockFile-Captures.docx.
C3_TargetPathConfined ==
    ctDone =>
        /\ ctResult.ok =>
            /\ IsRelative(ctResult.value)
            /\ NoParentDir(ctResult.value)
            /\ EndsWithDocx(ctResult.value)
        /\ (~ctInput.some \/ (~ctInput.absolute /\ ctInput.comps = <<>>)) =>
            ctResult = Ok([absolute |-> FALSE, comps |-> DEFAULT_CAPTURE_TARGET])

RangeIndices(range) == range.start_index..(range.end_index - 1)

\* One range per heading, in document order, each with start < end.
OneRangePerHeading ==
    /\ Len(hrRanges) = Cardinality(heading_indices(hrParas))
    /\ \A k \in 1..Len(hrRanges) :
        /\ hrRanges[k].start_index \in heading_indices(hrParas)
        /\ hrRanges[k].start_index < hrRanges[k].end_index
        /\ hrRanges[k].end_index <= Len(hrParas)
    /\ \A k \in 1..(Len(hrRanges) - 1) : hrRanges[k].start_index < hrRanges[k + 1].start_index

SameLevelDisjoint ==
    \A j, k \in 1..Len(hrRanges) :
        (j # k /\ hrRanges[j].level = hrRanges[k].level) =>
            RangeIndices(hrRanges[j]) \cap RangeIndices(hrRanges[k]) = {}

\* A top-level heading: one whose range lies in no other heading's range.
TopLevelRanges ==
    {k \in 1..Len(hrRanges) :
        \A j \in 1..Len(hrRanges) :
            j # k => ~(RangeIndices(hrRanges[k]) \subseteq RangeIndices(hrRanges[j]))}

TopLevelDisjoint ==
    \A j, k \in TopLevelRanges :
        j # k => RangeIndices(hrRanges[j]) \cap RangeIndices(hrRanges[k]) = {}

TopLevelCover == UNION {RangeIndices(hrRanges[k]) : k \in TopLevelRanges}

\* C6 as stated: one range [start_index, end_index) per heading with
\* start_index < end_index, two ranges of one level never overlap, and the
\* ranges of the top-level headings partition the file's paragraphs.
C6_TopLevelPartitionFile ==
    hrDone =>
        /\ OneRangePerHeading
        /\ SameLevelDisjoint
        /\ TopLevelDisjoint
        /\ TopLevelCover = 0..(Len(hrParas) - 1)

\* C6 as amended: the same, but the ranges of the top-level headings
\* partition the paragraphs from the first heading to the end of the file;
\* the paragraphs before the first heading lie in no range.
C6_TopLevelPartitionFromFirstHeading ==
    hrDone =>
        /\ OneRangePerHeading
        /\ SameLevelDisjoint
        /\ TopLevelDisjoint
        /\ TopLevelCover =
            IF heading_indices(hrParas) = {} THEN {}
            ELSE Min(heading_indices(hrParas))..(Len(hrParas) - 1)

\* Witness of C6: ranges built for a file with a paragraph before its first
\* heading and a heading nested in another heading's range.
C6_Witness ==
    /\ hrDone
    /\ Len(hrRanges) = 2
    /\ hrRanges[1].start_index = 1
    /\ hrRanges[1].end_index = 3
    /\ hrRanges[2].level > hrRanges[1].level
    /\ TopLevelRanges = {1}

\* C2: whenever rewrite_docx_with_parts fails, at whatever step (reading an
\* entry, writing the temp file, finishing the archive, renaming the temp
\* file over the original, or the delete-then-rename fallback), the file at
\* capture_path is the file that was there when the call began.
C2_OriginalUnchangedOnFailure ==
    rwResult = "err" => rwCapture = rwOriginal

\* The positions (from 1) at which a list holds a key.
PositionsOf(hits, key) == {k \in 1..Len(hits) : hits[k].key = key}

RECURSIVE SumOfTerms(_)
\* The sum of RrfDenominator / (60 + position) over a set of positions.
SumOfTerms(positions) ==
    IF positions = {} THEN 0
    ELSE LET position == Min(positions) IN
         RrfDenominator \div (60 + position) + SumOfTerms(positions \ {position})

\* RrfDenominator times the sum of 1/(60 + rank) over the lists holding the key.
RrfSum(key) ==
    SumOfTerms(PositionsOf(fzLexical, key)) + SumOfTerms(PositionsOf(fzSemantic, key))

\* The fused score of a hit that stands at one position of one list only.
ScoreOnceAt(position) == 1000 * RrfDenominator - 1000 * (RrfDenominator \div (60 + position))

\* C7: fuse_rrf orders the hits by decreasing sum of 1/(60 + rank) over the
\* lists holding them; a hit at position i of both lists has a strictly
\* better (smaller) fused score than a hit standing once at position i; a
\* hit is tagged "hybrid" exactly when its key is in both lists; and
\* lexical [A, B, C] with semantic [B, D, A] fuses to B, A, ... with B
\* tagged hybrid.
C7_RrfOrderAndHybridTag ==
    fzDone =>
        /\ \A j, k \in 1..Len(fzFused) : j < k => RrfSum(fzFused[j].key) >= RrfSum(fzFused[k].key)
        /\ hit_keys(fzFused) = hit_keys(fzLexical) \cup hit_keys(fzSemantic)
        /\ \A k \in 1..Len(fzFused) :
            LET hit == fzFused[k] IN
            /\ \A position \in 1..MaxHits :
                /\ (PositionsOf(fzLexical, hit.key) = {position}
                        /\ PositionsOf(fzSemantic, hit.key) = {position})
                    => hit.score.num < ScoreOnceAt(position)
                /\ (PositionsOf(fzLexical, hit.key) \cup PositionsOf(fzSemantic, hit.key) = {position}
                        /\ (PositionsOf(fzLexical, hit.key) = {} \/ PositionsOf(fzSemantic, hit.key) = {}))
                    => hit.score.num = ScoreOnceAt(position)
            /\ hit.source = "hybrid" <=>
                (hit.key \in hit_keys(fzLexical) /\ hit.key \in hit_keys(fzSemantic))
        /\ ([k \in 1..Len(fzLexical) |-> fzLexical[k].key] = <<"A", "B", "C">>
                /\ [k \in 1..Len(fzSemantic) |-> fzSemantic[k].key] = <<"B", "D", "A">>)
            => /\ fzFused[1].key = "B"
               /\ fzFused[2].key = "A"
               /\ fzFused[1].source = "hybrid"

\* Witness of C7: lexical [A, B, C] and semantic [B, D, A] fused to B, A, D, C.
C7_Witness ==
    /\ fzDone
    /\ [k \in 1..Len(fzLexical) |-> fzLexical[k].key] = <<"A", "B", "C">>
    /\ [k \in 1..Len(fzSemantic) |-> fzSemantic[k].key] = <<"B", "D", "A">>
    /\ [k \in 1..Len(fzFused) |-> fzFused[k].key] = <<"B", "A", "D", "C">>
    /\ fzFused[2].source = "hybrid"
    /\ fzFused[3].source = "semantic"

KeysOf(hits) == [k \in 1..Len(hits) |-> hits[k].key]

\* C10: when a search_hybrid call in hybrid mode (semantic enabled, both
\* searches run) meets a failure of the semantic search, it succeeds with
\* exactly the lexical hits, in the lexical order, none tagged hybrid; the
\* call fails exactly when the lexical search fails.
C10_SemanticFailureDegradesToLexical ==
    shLast.branch = "hybrid" =>
        /\ shLast.result.ok <=> ~shLast.lexical_failed
        /\ (shLast.semantic_failed /\ ~shLast.lexical_failed) =>
            /\ KeysOf(shLast.result.value) = KeysOf(shLexicalIndex)
            /\ \A k \in 1..Len(shLast.result.value) : shLast.result.value[k].source = "lexical"

\* Witness of C10: a hybrid call whose semantic search failed returned the two
\* lexical hits, one of which the semantic index holds too.
C10_Witness ==
    /\ shLast.branch = "hybrid"
    /\ shLast.semantic_failed /\ ~shLast.lexical_failed
    /\ shLast.result.ok
    /\ KeysOf(shLast.result.value) = <<"C", "B">>
    /\ KeysOf(shSemanticIndex) = <<"B", "D">>

\* C1: when no .docx file under the root was added, removed or modified
\* between two consecutive successful index_root runs, the second run
\* returns updated = 0, removed = 0 and skipped = scanned.
C1_ReindexUnchangedTree ==
    (ixResponse.command = "index_root" /\ ixResponse.ok /\ ixResponse.unchanged) =>
        /\ ixResponse.stats.updated = 0
        /\ ixResponse.stats.removed = 0
        /\ ixResponse.stats.skipped = ixResponse.stats.scanned

\* Witness of C1: a second successful run over an unchanged tree of two
\* indexed documents.
C1_Witness ==
    /\ ixResponse.command = "index_root" /\ ixResponse.ok /\ ixResponse.unchanged
    /\ ixResponse.stats.scanned = 2
    /\ Cardinality(ixDb.files) = 2

RowsOfRoot(path) ==
    LET roots == {row.id : row \in root_rows(ixDb, path)}
        files == {row.id : row \in {r \in ixDb.files : r.root_id \in roots}}
    IN  [roots |-> roots,
         files |-> files,
         headings |-> {row \in ixDb.headings : row.file_id \in files},
         authors |-> {row \in ixDb.authors : row.file_id \in files},
         chunks |-> {row \in ixDb.chunks : row.root_id \in roots \/ row.file_id \in files},
         captures |-> {row \in ixDb.captures : row.root_id \in roots}]

\* C9: the JSON dispatcher accepts remove_root{path}; the response is ok
\* with an empty result, and afterwards the store holds no root, file,
\* heading, author, chunk or capture row of that root.
C9_RemoveRootDispatched ==
    (ixResponse.command = "remove_root" /\ ixResponse.registered) =>
        /\ ixResponse.ok
        /\ RowsOfRoot(RootPath) =
            [roots |-> {}, files |-> {}, headings |-> {}, authors |-> {}, chunks |-> {}, captures |-> {}]

\* C4: after a capture is appended, every style id and every relationship
\* id referenced by the inserted paragraph XML is defined in the target
\* package, and no relationship id of the target carries two differing
\* definitions.
C4_InsertedReferencesResolve ==
    mgResult = "ok" =>
        /\ mgInserted.style_refs \subseteq mgTarget.styles
        /\ \A k \in 1..Len(mgInserted.rel_refs) :
            mgInserted.rel_refs[k].id \in relationship_ids_of(mgTarget.relationships)
        /\ \A first, second \in mgTarget.relationships :
            first.id = second.id => first.def = second.def

\* The profile split_text_into_chunks used for the text.
ProfileOf(text) ==
    LET trimmed == trim_chars(text, 0, text.leading + text.length)
    IN  chunk_profile(trimmed.to - trimmed.from)

\* C8: for every section text, split_text_into_chunks returns at most 384
\* chunks, and no chunk is longer than the profile's max_chars except the
\* last chunk when the remaining tail was merged into it at the 384-chunk cap.
C8_ChunkCountAndLength ==
    ckDone =>
        /\ Len(ckChunks) <= MAX_CHUNKS_PER_SECTION
        /\ \A index \in 1..Len(ckChunks) :
            \/ chunk_chars(ckChunks[index]) <= ProfileOf(ckText).max_chars
            \/ /\ index = Len(ckChunks)
               /\ Len(ckChunks) = MAX_CHUNKS_PER_SECTION
               /\ ckChunks[index].merged

\* The cap is reached with characters left: the tail is merged into the
\* 384th chunk, which becomes longer than max_chars.
C8_Witness ==
    /\ ckDone
    /\ Len(ckChunks) = MAX_CHUNKS_PER_SECTION
    /\ ckChunks[MAX_CHUNKS_PER_SECTION].merged
    /\ chunk_chars(ckChunks[MAX_CHUNKS_PER_SECTION]) > ProfileOf(ckText).max_chars
    /\ \A index \in 1..(MAX_CHUNKS_PER_SECTION - 1) :
        chunk_chars(ckChunks[index]) <= ProfileOf(ckText).max_chars

\* C11: when a statement inside the transaction of index_root fails, the
\* file, heading, author and chunk rows and the last_indexed_ms of every root
\* are as they were before the run, and neither the root marker file nor the
\* lexical index is rewritten.
C11_FailedTransactionRollsBack ==
    [][(ixClock' # ixClock /\ ixFault' = "transaction") =>
            /\ ixDb'.files = ixDb.files
            /\ ixDb'.headings = ixDb.headings
            /\ ixDb'.authors = ixDb.authors
            /\ ixDb'.chunks = ixDb.chunks
            /\ \A before \in ixDb.roots : before \in ixDb'.roots
            /\ \A after \in ixDb'.roots : after \in ixDb.roots \/ after.last_indexed_ms = 0
            /\ ixMarker' = ixMarker
            /\ ixLexical' = ixLexical]_vars

\* An index_root over a store indexed before, with a file to update and a
\* file row to remove, ended by a failing statement of its transaction.
C11_Witness ==
    /\ ixFault = "transaction"
    /\ ixMarker.exists /\ ixMarker.last_indexed_ms > 0
    /\ ixDb.files # {}
    /\ indexing_candidates(ixDb.files, ixTree) # {}
    /\ \E row \in ixDb.files : row.relative_path \notin walked_paths(ixTree)

\* The documents of the tree that parse_docx_paragraphs cannot read.
Unparsed(tree) == {path \in walked_paths(tree) : tree[path].content.middle = ""}

\* C12: a candidate file that fails to parse does not abort index_root: the
\* run commits, the file's row carries the new modified_ms, size and hash and
\* has no heading, author or chunk rows, the file is counted as updated, and
\* a run on the unchanged tree right after skips it.
C12_UnparsedCandidateIsUpserted ==
    [][(ixClock' # ixClock /\ ixFault' = "none") =>
            LET existing_files == load_existing_files(ixDb, root_id_of(ixDb', RootPath))
                candidates == indexing_candidates(existing_files, ixTree)
            IN
            /\ ixResponse'.ok
            /\ ixResponse'.stats.updated = Cardinality(candidates)
            /\ \A root \in root_rows(ixDb', RootPath) : root.last_indexed_ms = ixClock'
            /\ \A path \in candidates \cap Unparsed(ixTree) :
                /\ \E row \in ixDb'.files :
                    /\ row.relative_path = path
                    /\ row.modified_ms = ixTree[path].modified_ms
                    /\ row.size = file_size(ixTree[path].content)
                    /\ row.file_hash = fast_file_hash(ixTree[path].content)
                    /\ row.heading_count = 0
                    /\ ~\E heading \in ixDb'.headings : heading.file_id = row.id
                    /\ ~\E author \in ixDb'.authors : author.file_id = row.id
                    /\ ~\E chunk \in ixDb'.chunks : chunk.file_id = row.id
                /\ path \in skipped_paths(load_existing_files(ixDb', root_id_of(ixDb', RootPath)), ixTree')
                /\ path \notin indexing_candidates(
                        load_existing_files(ixDb', root_id_of(ixDb', RootPath)), ixTree')]_vars

\* A successful index_root has just written the row of an unreadable
\* a.docx, next to a readable document with its headings.
C12_Witness ==
    /\ ixFault = "none" /\ ixResponse.command = "index_root" /\ ixResponse.ok
    /\ ixUnchanged
    /\ ixResponse.stats.updated >= 1
    /\ "a.docx" \in Unparsed(ixTree)
    /\ \E row \in ixDb.files :
        /\ row.relative_path = "a.docx"
        /\ row.modified_ms = ixTree["a.docx"].modified_ms
        /\ row.modified_ms = MaxMtime
        /\ row.heading_count = 0
    /\ ixDb.headings # {}

\* The rebuild tasks that have been spawned and have not ended.
LiveTasks == {caller \in Callers : rbTask[caller].pc # "none"}

\* C13: at most one semantic rebuild runs at a time, and a trigger that
\* finds a rebuild in flight returns at once: its compare_exchange is the
\* caller's next step whatever the task does, and it spawns nothing.
C13_SingleFlight ==
    /\ [](/\ Cardinality(LiveTasks) <= 1
          /\ LiveTasks # {} => rbInFlight
          /\ \A caller \in Callers :
                rbCaller[caller].pc = "cas" => ENABLED CompareExchange(caller))
    /\ [][\A caller \in Callers :
            (rbCaller[caller].pc = "cas" /\ rbInFlight /\ rbCaller'[caller].pc # "cas") =>
                /\ rbCaller'[caller].pc = "return"
                /\ ~rbCaller'[caller].spawned
                /\ rbTask' = rbTask
                /\ rbInFlight' = rbInFlight]_vars

\* A trigger has been skipped while the rebuild of the other caller runs.
C13_Witness ==
    /\ rbInFlight
    /\ rbTask[1].pc = "running"
    /\ rbCaller[2].pc = "return" /\ ~rbCaller[2].spawned /\ rbCaller[2].force
    /\ rbTask[2].pc = "none"

\* C14: every semantic rebuild that is started clears the in-flight flag in
\* the end, whether it succeeds or fails, and a trigger that then reaches the
\* compare_exchange starts a new rebuild; a lexical or hybrid search fails
\* only when its lexical search failed, whatever became of the rebuilds.
C14_FlagClearedAndSearchUnaffected ==
    /\ \A caller \in Callers : (rbTask[caller].pc = "running") ~> ~rbInFlight
    /\ [][\A caller \in Callers :
            (rbCaller[caller].pc = "cas" /\ ~rbInFlight /\ rbCaller'[caller].pc # "cas") =>
                rbCaller'[caller].spawned /\ rbTask'[caller].pc = "running"]_vars
    /\ [](rbLast.command \in {"search_lexical", "search_hybrid"} /\ ~rbLast.ok =>
            rbLast.lexical_failed)

\* A rebuild failed and left a broken table, a hybrid search whose semantic
\* search failed has returned hits, and a later trigger has started the
\* next rebuild.
C14_Witness ==
    /\ rbLastRebuild = "err"
    /\ rbTable = "broken"
    /\ rbLast.command = "search_hybrid" /\ rbLast.ok /\ rbLast.semantic_failed
    /\ rbLast.spawned
    /\ \E caller \in Callers : rbTask[caller].pc = "running"

\* C15: the query cache never holds more than 480 entries, and the entry an
\* insertion evicts is the least recently used one, a cache hit (get)
\* counting as a use like a put.
C15_CapacityAndLru ==
    /\ Len(qcOrder) <= CACHE_CAPACITY
    /\ Cardinality(qcEntries) <= CACHE_CAPACITY
    /\ qcEviction.happened => qcEviction.evicted = qcEviction.least_recent

\* C16: opening the store keeps the metadata DB, the lexical directory and
\* the vector directory when layout.json records the current layout version;
\* when the recorded version is missing or different, the legacy paths are
\* gone and the layout is a new one: a manifest of the current version, a
\* database without rows and empty lexical and vector directories.
C16_LayoutKeptOrReset ==
    lyResult = "ok" =>
        IF lyBefore.layout = "dir" /\ lyBefore.manifest = SomeVersion(INDEX_LAYOUT_VERSION)
        THEN /\ lyDisk.manifest = lyBefore.manifest
             /\ lyDisk.meta = IF lyBefore.meta \in {"absent", "empty"} THEN "fresh" ELSE lyBefore.meta
             /\ lyDisk.lexical = IF lyBefore.lexical = "absent" THEN "empty" ELSE lyBefore.lexical
             /\ lyDisk.vector = IF lyBefore.vector = "absent" THEN "empty" ELSE lyBefore.vector
             /\ lyDisk.legacy_database = lyBefore.legacy_database
             /\ lyDisk.legacy_semantic_dir = lyBefore.legacy_semantic_dir
             /\ lyDisk.legacy_semantic_meta = lyBefore.legacy_semantic_meta
        ELSE lyDisk = Disk(FALSE, FALSE, FALSE, "dir", SomeVersion(INDEX_LAYOUT_VERSION),
                           "fresh", "empty", "empty")

\* A layout of an older version with data in all three directories and the
\* legacy paths present has been opened and is reset.
C16_Witness ==
    /\ lyResult = "ok"
    /\ lyBefore.manifest = SomeVersion(1)
    /\ lyBefore.meta = "data" /\ lyBefore.lexical = "data" /\ lyBefore.vector = "data"
    /\ lyBefore.legacy_database /\ lyBefore.legacy_semantic_dir /\ lyBefore.legacy_semantic_meta
    /\ lyDisk.meta = "fresh" /\ lyDisk.lexical = "empty" /\ lyDisk.vector = "empty"

\* The normalized text of each paragraph and of each returned entry, and
\* whether each paragraph is a probable author line.
ParagraphNormalized ==
    <<>> \o [index \in 1..Len(acParagraphs) |-> normalize_for_search_tokens(acParagraphs[index].text)]
ParagraphProbable ==
    <<>> \o [index \in 1..Len(acParagraphs) |-> is_probable_author_line(acParagraphs[index].text)]
AuthorNormalized == [i \in 1..Len(acAuthors) |-> normalize_for_search_tokens(acAuthors[i].text)]

\* The paragraph of acParagraphs entry i of acAuthors was taken from: the
\* order of a paragraph is its position.
AuthorSource(i) ==
    {index \in {acAuthors[i].order} \cap (1..Len(acParagraphs)) :
        acParagraphs[index].order = acAuthors[i].order /\ acParagraphs[index].text = acAuthors[i].text}

AuthorsCappedOrderedDistinct ==
    LET normalized == AuthorNormalized IN
    /\ Len(acAuthors) <= MAX_AUTHORS
    /\ \A i \in 1..(Len(acAuthors) - 1) : acAuthors[i].order < acAuthors[i + 1].order
    /\ Cardinality({normalized[i] : i \in 1..Len(acAuthors)}) = Len(acAuthors)

\* C17 (as amended): extract_author_candidates returns at most 120 entries,
\* in document order, no two with the same normalized text, each being the
\* first probable author line with that normalized text; below the cap no
\* probable author line's normalized text is missing.
C17_FirstAuthorLinePerNormalizedText ==
    LET normalized == ParagraphNormalized
        probable == ParagraphProbable
        returned == {AuthorNormalized[i] : i \in 1..Len(acAuthors)}
    IN  acDone =>
        /\ AuthorsCappedOrderedDistinct
        /\ \A i \in 1..Len(acAuthors) :
            \E index \in AuthorSource(i) :
                /\ probable[index]
                /\ \A earlier \in 1..(index - 1) :
                    probable[earlier] => normalized[earlier] # normalized[index]
        /\ Len(acAuthors) < MAX_AUTHORS =>
            \A index \in 1..Len(acParagraphs) : probable[index] => normalized[index] \in returned

\* C17 (as stated): extract_author_candidates returns at most 120 entries,
\* in document order, no two with the same normalized text, each being the
\* first paragraph with that normalized text.
C17_FirstParagraphPerNormalizedText ==
    LET normalized == ParagraphNormalized IN
    acDone =>
        /\ AuthorsCappedOrderedDistinct
        /\ \A i \in 1..Len(acAuthors) :
            \E index \in AuthorSource(i) :
                \A earlier \in 1..(index - 1) : normalized[earlier] # normalized[index]

\* The cap was reached with candidates left over, and a repeat of the first
\* line in another case was dropped.
C17_Witness ==
    /\ acDone
    /\ Len(acAuthors) = MAX_AUTHORS
    /\ Len(acParagraphs) > MAX_AUTHORS
    /\ \E index \in 2..Len(acParagraphs) :
        /\ acParagraphs[index].text # acParagraphs[1].text
        /\ normalize_for_search_tokens(acParagraphs[index].text)
            = normalize_for_search_tokens(acParagraphs[1].text)
        /\ is_probable_author_line(acParagraphs[index].text)
    /\ is_probable_author_line(acParagraphs[Len(acParagraphs)].text)
    /\ acAuthors[MAX_AUTHORS].order < Len(acParagraphs)

MoveRanges == build_heading_ranges(parse_docx_paragraphs(xml_paragraphs(mvBefore)))
MoveRangeOf(order) == {MoveRanges[i] : i \in {i \in 1..Len(MoveRanges) : MoveRanges[i].order = order}}
ParagraphIds(xml) == [position \in 1..Len(paragraph_nodes(xml)) |-> xml[paragraph_nodes(xml)[position]].id]
IdsOfRange(range) ==
    SubSeq(ParagraphIds(mvBefore), range.start_index + 1, range.end_index)
SeqRange(sequence) == {sequence[i] : i \in 1..Len(sequence)}

\* The paragraphs in the order a move of `source` after `target` asks for:
\* the others in their order, the source range right after the last
\* paragraph of the target range that is not moved.
MovedIds(source, target) ==
    LET moved == IdsOfRange(source)
        others == SelectSeq(ParagraphIds(mvBefore), LAMBDA id : id \notin SeqRange(moved))
        kept == SelectSeq(IdsOfRange(target), LAMBDA id : id \notin SeqRange(moved))
        anchor == kept[Len(kept)]
        place == CHOOSE position \in 1..Len(others) : others[position] = anchor
    IN  SubSeq(others, 1, place) \o moved \o SubSeq(others, place + 1, Len(others))

\* C19: move_capture_heading rejects a move whose target heading lies inside
\* the source heading's range and leaves the file untouched; otherwise the
\* resulting document contains exactly the original paragraphs, with the
\* source range contiguous right after the last paragraph of the target
\* heading's range and all other paragraphs in their original order.
C19_MoveKeepsParagraphs ==
    (mvResult # "none" /\ MoveRangeOf(mvCall.source) # {} /\ MoveRangeOf(mvCall.target) # {}) =>
        \A source \in MoveRangeOf(mvCall.source), target \in MoveRangeOf(mvCall.target) :
            IF target.start_index >= source.start_index /\ target.start_index < source.end_index
            THEN mvXml = mvBefore /\ (source # target => mvResult = "err")
            ELSE /\ mvResult = "ok"
                 /\ Document_parse(mvXml)
                 /\ ParagraphIds(mvXml) = MovedIds(source, target)

\* The same for documents without tables.
C19_FlatMoveKeepsParagraphs ==
    (\A index \in 1..Len(mvBefore) : mvBefore[index].kind \in {"p", "sectPr"}) => C19_MoveKeepsParagraphs

\* The heading ranges of riParagraphs, the one selected, and the order of
\* the last paragraph of a range.
InsertRanges == build_heading_ranges(riParagraphs)
InsertRangeSet == {InsertRanges[position] : position \in 1..Len(InsertRanges)}
SelectedRanges == {range \in InsertRangeSet : riSelected.some /\ range.order = riSelected.value}
EndOrderOf(range) == riParagraphs[range.end_index].order
LastOf(ranges) == CHOOSE range \in ranges : \A other \in ranges : other.start_index <= range.start_index

\* The ancestors the first rule speaks of: level < incoming, range holding
\* the start of the selected range, the selected range itself left out.
InsertAncestors(selected) ==
    {range \in InsertRangeSet :
        /\ range # selected
        /\ range.level < riIncoming.value
        /\ range.start_index <= selected.start_index
        /\ selected.start_index < range.end_index}
AtOrAbove == {range \in InsertRangeSet : range.level <= riIncoming.value}
SameLevel == {range \in InsertRangeSet : riIncoming.some /\ range.level = riIncoming.value}
ParentLevel == {range \in InsertRangeSet : riIncoming.some /\ range.level < riIncoming.value}

\* The orders the rule for a call without a selected heading allows.
WithoutSelection ==
    IF SameLevel # {} THEN {EndOrderOf(LastOf(SameLevel))}
    ELSE IF ParentLevel # {} THEN {EndOrderOf(LastOf(ParentLevel))}
    ELSE {EndOrderOf(LastOf(InsertRangeSet))}

\* The orders the rules for a selected heading allow; `fallback` is what is
\* allowed when incoming < selected level and neither an ancestor nor a range
\* with level <= incoming exists.
WithSelection(selected, fallback) ==
    IF riIncoming.some /\ riIncoming.value < selected.level
    THEN IF InsertAncestors(selected) # {} THEN {EndOrderOf(LastOf(InsertAncestors(selected)))}
         ELSE IF AtOrAbove # {} THEN {EndOrderOf(LastOf(AtOrAbove))}
         ELSE fallback
    ELSE {EndOrderOf(selected)}

\* C20 (as amended): with a selected heading and incoming level < selected
\* level, resolve_insert_after_order returns the end-order of the nearest
\* ancestor whose level < incoming and whose range contains the selected
\* start, else the end-order of the last range with level <= incoming, else
\* the end-order of the selected range; with a selected heading otherwise,
\* the end-order of the selected range; with no selected heading, the
\* end-order of the last range with level = incoming, else of the last range
\* with level < incoming, else of the last range overall; None when the
\* document has no heading.
C20_InsertAfterOrder ==
    riDone =>
        IF InsertRangeSet = {} THEN riResult = NoOrder
        ELSE /\ riResult.some
             /\ riResult.value \in
                    IF SelectedRanges # {}
                    THEN UNION {WithSelection(selected, {EndOrderOf(selected)}) : selected \in SelectedRanges}
                    ELSE WithoutSelection

\* C20 (as stated): the same without the third alternative of the first rule.
C20_InsertAfterOrderAsStated ==
    (riDone /\ InsertRangeSet # {}) =>
        /\ riResult.some
        /\ riResult.value \in
                IF SelectedRanges # {}
                THEN UNION {WithSelection(selected, {}) : selected \in SelectedRanges}
                ELSE WithoutSelection

\* A call with a selected heading under two nested ancestors of smaller
\* level than the incoming one has returned the end-order of the nearer.
C20_Witness ==
    /\ riDone /\ riResult.some
    /\ \E selected \in SelectedRanges :
        /\ riIncoming.some /\ riIncoming.value < selected.level
        /\ Cardinality(InsertAncestors(selected)) >= 2
        /\ riResult.value = EndOrderOf(LastOf(InsertAncestors(selected)))
        /\ \E ancestor \in InsertAncestors(selected) : EndOrderOf(ancestor) # riResult.value

\* The ranges an insertion after the paragraph of order `order` falls
\* strictly inside: the paragraph is in the range and is not its last.
CutRanges(order) ==
    {range \in InsertRangeSet :
        /\ riParagraphs[range.start_index + 1].order <= order
        /\ order < EndOrderOf(range)}

\* C21: the insertion point resolve_insert_after_order chooses for an
\* incoming heading of level L never lies strictly inside the range of an
\* existing heading whose level is greater than or equal to L.
C21_InsertionCutsNoSubtree ==
    (riDone /\ riIncoming.some /\ riResult.some) =>
        \A range \in CutRanges(riResult.value) : range.level < riIncoming.value

\* The definition a relationship part gives an id: the set of the
\* definitions of its Relationship elements with that id.
DefinitionsOf(relationships, id) ==
    {relationship.def : relationship \in {candidate \in relationships : candidate.id = id}}

\* C22: after merge_relationships and remap_relationship_ids, every
\* relationship id referenced in the inserted paragraph XML on a hyperlink
\* or blip element, and defined by the source, resolves in the target package
\* to the definition it had in the source, whatever the iteration order of
\* the requested ids and of the remap table.
C22_ReferencesKeepDefinition ==
    (mgResult = "ok" /\ mgSection.used_source_xml) =>
        \A k \in 1..Len(mgSection.rel_refs) :
            (/\ mgSection.rel_refs[k].collected
             /\ DefinitionsOf(mgSource.relationships, mgSection.rel_refs[k].id) # {}) =>
                DefinitionsOf(mgTarget.relationships, mgInserted.rel_refs[k].id)
                    = DefinitionsOf(mgSource.relationships, mgSection.rel_refs[k].id)

\* The section text is longer than the profile's max_chars.
LongerThanMaxChars(text) ==
    LET trimmed == trim_chars(text, 0, text.leading + text.length)
    IN  trimmed.to - trimmed.from > ProfileOf(text).max_chars

\* C23: for a section text longer than max_chars, split_text_into_chunks
\* emits each chunk once: successive chunks start at strictly increasing
\* offsets of the text, and the final chunk is not emitted a second time as
\* a tail.
C23_EachChunkOnce ==
    (ckDone /\ LongerThanMaxChars(ckText)) =>
        \A index \in 1..(Len(ckChunks) - 1) :
            ckChunks[index].from < ckChunks[index + 1].from

\* The rebuild task of `caller` returns without error in this step, and the
\* roots table holds no last_indexed_ms later than the one the task read: no
\* index_root has committed while it ran.
RebuildCompletes(caller) ==
    /\ rbTask[caller].pc = "running"
    /\ rbTask'[caller].pc = "returned"
    /\ rbTask'[caller].ok
    /\ rbFingerprint <= rbTask[caller].fingerprint.value

\* A non-forced trigger evaluates should_rebuild in this step.
NonForcedTrigger(caller) ==
    /\ rbCaller[caller].pc = "trigger"
    /\ ~rbCaller[caller].force
    /\ rbCaller'[caller].pc # "trigger"

ProgressPhases == <<"discovering", "indexing", "cleaning", "complete">>
PhaseRank(phase) == CHOOSE rank \in 1..Len(ProgressPhases) : ProgressPhases[rank] = phase

\* The events come in the order of the phases, and a run that succeeded has
\* emitted all four.
PhasesInOrder ==
    /\ \A index \in 1..(Len(pgEvents) - 1) :
        PhaseRank(pgEvents[index].phase) <= PhaseRank(pgEvents[index + 1].phase)
    /\ pgPc = "done" =>
        {pgEvents[index].phase : index \in 1..Len(pgEvents)}
            = {ProgressPhases[rank] : rank \in 1..Len(ProgressPhases)}

\* The first event of each phase is a forced one.
PhasesBeginForced ==
    \A index \in 1..Len(pgEvents) :
        (index = 1 \/ pgEvents[index].phase # pgEvents[index - 1].phase) => pgEvents[index].force

\* A non-forced event is at least the interval after the emission before it.
ThrottleKept ==
    \A index \in 2..Len(pgEvents) :
        ~pgEvents[index].force =>
            pgEvents[index].at - pgEvents[index - 1].at >= INDEX_PROGRESS_EMIT_INTERVAL_MS

\* C25: during a successful index_root run the progress phases are emitted
\* in the order discovering, indexing, cleaning, complete; the first event of
\* each phase is emitted regardless of the throttle, every non-forced event
\* is at least 120 ms after the previous emission, and elapsed_ms never
\* decreases from one emitted event to the next.
C25_ProgressEvents ==
    /\ PhasesInOrder
    /\ PhasesBeginForced
    /\ ThrottleKept
    /\ \A index \in 1..(Len(pgEvents) - 1) :
        pgEvents[index].elapsed_ms <= pgEvents[index + 1].elapsed_ms

\* C26: a search issued after index_root or remove_root has completed
\* returns results computed from the index as rebuilt by that operation,
\* never a result list that was cached before it.
C26_SearchSeesRebuiltIndex ==
    (scLast.called /\ scLast.ok /\ scLast.after # "none") => scLast.results = scLast.fresh

\* C27: insert_capture is all-or-nothing with respect to the capture log: a
\* capture row is added by a call only if the section was written into the
\* target .docx; when appending to the .docx fails, the store holds no new
\* capture row and the entry count list_capture_targets reports for the
\* target is unchanged.
C27_CaptureRowOnlyWithDocx ==
    [][/\ ~(ixDb'.captures \subseteq ixDb.captures) =>
            /\ ixResponse'.command = "insert_capture"
            /\ ixResponse'.ok
            /\ ixTree'["a.docx"] # ixTree["a.docx"]
       /\ (ixResponse'.command = "insert_capture" /\ ~ixResponse'.ok) =>
            capture_entry_count(ixDb', RootPath, "a.docx")
                = capture_entry_count(ixDb, RootPath, "a.docx")]_vars

\* Every row of files carries the absolute path of its own relative path,
\* and every row of headings belongs to a file row of its own relative path.
RowsCarryTheirOwnFile ==
    /\ \A row \in ovFiles : row.absolute_path = absolute_path_of(row.relative_path)
    /\ \A heading \in ovHeadings :
        \E row \in ovFiles :
            row.id = heading.file_id /\ row.relative_path = heading.relative_path

\* A run that fails leaves the rows as they were.
FailedRunWritesNothing ==
    \A run \in OverlapRuns :
        (ovRun[run].pc = "walked" /\ ovRun'[run].pc = "failed") =>
            (ovFiles' = ovFiles /\ ovHeadings' = ovHeadings)

\* C28: when index_root runs on the same root overlap in time, each run
\* either commits all of its changes or fails leaving no partial writes, and
\* the store is one that runs executed one after another leave: no file row
\* ends up carrying another file's path, hash or headings.
C28_OverlappingRunsSerialize ==
    /\ [][FailedRunWritesNothing]_vars
    /\ []RowsCarryTheirOwnFile

\* ------------------------------------------------------------------ C29

TierBase(tier) == IF tier = 1 THEN 1000 ELSE IF tier = 2 THEN 2000 ELSE 3000

\* Each hit's score is the base of the tier that found it plus its rank in
\* that tier (this part holds).
ScoresAreBasePlusRank ==
    ltOut.called =>
        \A position \in 1..Len(ltOut.results) :
            ltOut.results[position].score
                = TierBase(ltOut.found[position].tier) + ltOut.found[position].rank

\* C29: in every lexical result list each score is base + rank with bases
\* 1000, 2000 and 3000, scores never decrease along the list, and a hit
\* found by an earlier tier has a lower score than any hit found by a later
\* tier.
C29_ScoresOrderedByTier ==
    /\ ScoresAreBasePlusRank
    /\ ltOut.called =>
        \A first, second \in 1..Len(ltOut.results) :
            /\ first < second => ltOut.results[first].score <= ltOut.results[second].score
            /\ ltOut.found[first].tier < ltOut.found[second].tier
                => ltOut.results[first].score < ltOut.results[second].score

\* ------------------------------------------------------------------ C30

\* Every caller of one runtime is given the same instance (this part holds).
CallersShareOneInstance ==
    \A runtime \in Runtimes : Cardinality(rtObtained[runtime]) <= 1

\* C30: the lexical runtime and the semantic runtime are each initialized at
\* most once per process: even when several threads make the first call
\* concurrently the initializer runs only once, and every caller obtains
\* the same instance.
C30_RuntimeInitializedOnce ==
    /\ \A runtime \in Runtimes : rtBuilt[runtime] <= 1
    /\ CallersShareOneInstance

====
